---------------------------- MODULE Spec2Model ----------------------------
(***************************************************************************)
(* A model of the RoboEyes animation engine (FastRoboEyes of               *)
(* src/new/roboeyes_fast.py; RoboEyes of src/roboeyes.py has the same      *)
(* mutators and the same per-tick arithmetic).                             *)
(*                                                                         *)
(* The engine object is one record, eng, whose fields carry the names of   *)
(* the Python attributes.  Every mutator and every section of draw_eyes    *)
(* is an operator from engine records to engine records, so an action is   *)
(* eng' = op(eng, inputs).  Python's // is \div (both floor), int(a / b)   *)
(* truncates toward zero (TruncDiv2).                                      *)
(***************************************************************************)
EXTENDS Integers, Sequences, FiniteSets, TLC

VARIABLES
    eng,    \* the engine object (all attributes that carry animation state)
    pre,    \* the engine as it was before the last operation
    now,    \* the clock, int(time.time() * 1000), as last read
    last,   \* the last operation: [op, args, raised]
    hist,   \* history kept for the properties (see InitHist)
    phase,  \* position of the driver in a scenario
    buffer, \* the frame buffer: the shapes the last draw_eyes painted
    seq     \* a Sequence object: its start time and its steps

vars == <<eng, pre, now, last, hist, phase, buffer, seq>>

----------------------------------------------------------------------------
(* Constants of the source                                                 *)

DEFAULT == 0
TIRED == 1
ANGRY == 2
HAPPY == 3
FROZEN == 4
SCARY == 5
CURIOUS == 6
SAD == 7

N == 1
NE == 2
E == 3
SE == 4
S == 5
SW == 6
W == 7
NW == 8

ON == TRUE
OFF == FALSE

\* An optional argument: None is the empty tuple, a given value v is <<v>>.
None == <<>>
Some(v) == <<v>>
IsNone(a) == a = <<>>
Val(a) == a[1]
\* Python truthiness of an optional boolean argument (None and False are falsy).
Truthy(a) == a # <<>> /\ a[1] = TRUE

Min2(a, b) == IF a <= b THEN a ELSE b
Min3(a, b, c) == Min2(a, Min2(b, c))

\* int(n / 2): true division, then truncation toward zero.
TruncDiv2(n) == IF n >= 0 THEN n \div 2 ELSE -((-n) \div 2)

\* Constructor defaults.
FrameRate == 60
SpaceBetweenDefault == 10
EyeWidthDefault == 36
EyeHeightDefault == 36
BorderRadiusDefault == 8
BlinkInterval == 3
BlinkIntervalVariation == 2
IdleInterval == 1
IdleIntervalVariation == 3
AnimationDuration == 500
LaughAmplitude == 5
ConfusedAmplitude == 20
CuriousOffset == 8
CuriousMargin == 10

----------------------------------------------------------------------------
(* Construction                                                            *)

\* FastRoboEyes.__init__(display, width, height, frame_rate=60, ...).
NewEngine(width, height) ==
    LET lx == TruncDiv2(width - (EyeWidthDefault + SpaceBetweenDefault + EyeWidthDefault))
        ly == TruncDiv2(height - EyeHeightDefault)
        rx == lx + EyeWidthDefault + SpaceBetweenDefault
    IN  [ screen_width |-> width,
          screen_height |-> height,
          fps_timer |-> 0,
          frame_interval |-> 1000 \div FrameRate,
          position |-> 0,
          mood |-> DEFAULT,
          tired |-> FALSE,
          angry |-> FALSE,
          happy |-> FALSE,
          curious |-> FALSE,
          cyclops |-> FALSE,
          eye_l_open |-> FALSE,
          eye_r_open |-> FALSE,
          space_between_default |-> SpaceBetweenDefault,
          eye_l_width_default |-> EyeWidthDefault,
          eye_l_height_default |-> EyeHeightDefault,
          eye_r_width_default |-> EyeWidthDefault,
          eye_r_height_default |-> EyeHeightDefault,
          eye_l_border_radius_default |-> BorderRadiusDefault,
          eye_r_border_radius_default |-> BorderRadiusDefault,
          eye_l_width_current |-> EyeWidthDefault,
          eye_l_height_current |-> 1,
          eye_r_width_current |-> EyeWidthDefault,
          eye_r_height_current |-> 1,
          eye_l_border_radius_current |-> BorderRadiusDefault,
          eye_r_border_radius_current |-> BorderRadiusDefault,
          space_between_current |-> SpaceBetweenDefault,
          eye_l_width_next |-> EyeWidthDefault,
          eye_l_height_next |-> EyeHeightDefault,
          eye_r_width_next |-> EyeWidthDefault,
          eye_r_height_next |-> EyeHeightDefault,
          eye_l_border_radius_next |-> BorderRadiusDefault,
          eye_r_border_radius_next |-> BorderRadiusDefault,
          space_between_next |-> SpaceBetweenDefault,
          eye_l_height_offset |-> 0,
          eye_r_height_offset |-> 0,
          eye_l_x_default |-> lx,
          eye_l_y_default |-> ly,
          eye_l_x |-> lx,
          eye_l_y |-> ly,
          eye_l_x_next |-> lx,
          eye_l_y_next |-> ly,
          eye_r_x_default |-> rx,
          eye_r_y_default |-> ly,
          eye_r_x |-> rx,
          eye_r_y |-> ly,
          eye_r_x_next |-> rx,
          eye_r_y_next |-> ly,
          eyelids_height_max |-> TruncDiv2(EyeHeightDefault),
          eyelids_tired_height |-> 0,
          eyelids_tired_height_next |-> 0,
          eyelids_angry_height |-> 0,
          eyelids_angry_height_next |-> 0,
          eyelids_happy_bottom_offset |-> 0,
          eyelids_happy_bottom_offset_next |-> 0,
          h_flicker |-> FALSE,
          h_flicker_amplitude |-> 0,
          h_flicker_alternate |-> FALSE,
          v_flicker |-> FALSE,
          v_flicker_amplitude |-> 0,
          v_flicker_alternate |-> FALSE,
          autoblinker |-> FALSE,
          blink_interval |-> BlinkInterval,
          blink_interval_variation |-> BlinkIntervalVariation,
          blink_timer |-> 0,
          idle |-> FALSE,
          idle_interval |-> IdleInterval,
          idle_interval_variation |-> IdleIntervalVariation,
          idle_animation_timer |-> 0,
          confused |-> FALSE,
          confused_animation_timer |-> 0,
          confused_animation_duration |-> AnimationDuration,
          confused_toggle |-> TRUE,
          laugh |-> FALSE,
          laugh_animation_timer |-> 0,
          laugh_animation_duration |-> AnimationDuration,
          laugh_toggle |-> TRUE ]

----------------------------------------------------------------------------
(* Public mutators                                                         *)

\* An eyes_width that also snaps the current width.
eyes_width_snapping(e, left_eye, right_eye) ==
    LET e1 == IF ~IsNone(left_eye)
              THEN [e EXCEPT !.eye_l_width_next = Val(left_eye),
                             !.eye_l_width_default = Val(left_eye),
                             !.eye_l_width_current = Val(left_eye)]
              ELSE e
    IN  IF ~IsNone(right_eye)
        THEN [e1 EXCEPT !.eye_r_width_next = Val(right_eye),
                        !.eye_r_width_default = Val(right_eye),
                        !.eye_r_width_current = Val(right_eye)]
        ELSE e1

eyes_width(e, left_eye, right_eye) ==
    LET e1 == IF ~IsNone(left_eye)
              THEN [e EXCEPT !.eye_l_width_next = Val(left_eye),
                             !.eye_l_width_default = Val(left_eye)]
              ELSE e
    IN  IF ~IsNone(right_eye)
        THEN [e1 EXCEPT !.eye_r_width_next = Val(right_eye),
                        !.eye_r_width_default = Val(right_eye)]
        ELSE e1

eyes_height(e, left_eye, right_eye) ==
    LET e1 == IF ~IsNone(left_eye)
              THEN [e EXCEPT !.eye_l_height_next = Val(left_eye),
                             !.eye_l_height_default = Val(left_eye)]
              ELSE e
    IN  IF ~IsNone(right_eye)
        THEN [e1 EXCEPT !.eye_r_height_next = Val(right_eye),
                        !.eye_r_height_default = Val(right_eye)]
        ELSE e1

eyes_radius(e, left_eye, right_eye) ==
    LET e1 == IF ~IsNone(left_eye)
              THEN [e EXCEPT !.eye_l_border_radius_next = Val(left_eye),
                             !.eye_l_border_radius_default = Val(left_eye)]
              ELSE e
    IN  IF ~IsNone(right_eye)
        THEN [e1 EXCEPT !.eye_r_border_radius_next = Val(right_eye),
                        !.eye_r_border_radius_default = Val(right_eye)]
        ELSE e1

\* An eyes_spacing that widens the gap by its argument.
eyes_spacing_adding(e, space) ==
    [e EXCEPT !.space_between_next = @ + space,
              !.space_between_default = @ + space]

eyes_spacing(e, space) ==
    [e EXCEPT !.space_between_next = space, !.space_between_default = space]

\* A mood setter that raises the flag of the new mood and clears none.
set_mood_leaving_flags(e, value) ==
    [e EXCEPT !.mood = value,
              !.tired = @ \/ (value = TIRED),
              !.angry = @ \/ (value = ANGRY),
              !.happy = @ \/ (value = HAPPY)]

set_mood(e, value) ==
    [e EXCEPT !.mood = value,
              !.tired = (value = TIRED),
              !.angry = (value = ANGRY),
              !.happy = (value = HAPPY)]

set_curious(e, value) == [e EXCEPT !.curious = value]

set_cyclops(e, value) == [e EXCEPT !.cyclops = value]

horiz_flicker(e, enable, amplitude) ==
    [e EXCEPT !.h_flicker = enable,
              !.h_flicker_amplitude = IF IsNone(amplitude) THEN @ ELSE Val(amplitude)]

vert_flicker(e, enable, amplitude) ==
    [e EXCEPT !.v_flicker = enable,
              !.v_flicker_amplitude = IF IsNone(amplitude) THEN @ ELSE Val(amplitude)]

\* A constraint computed from the widths and spacing the eyes are heading to.
get_screen_constraint_x_from_targets(e) ==
    e.screen_width - e.eye_l_width_next - e.space_between_next
        - e.eye_r_width_next

get_screen_constraint_x(e) ==
    e.screen_width - e.eye_l_width_current - e.space_between_current
        - e.eye_r_width_current

get_screen_constraint_y(e) == e.screen_height - e.eye_l_height_default

set_auto_blinker(e, active, interval, variation) ==
    [e EXCEPT !.autoblinker = active,
              !.blink_interval = IF IsNone(interval) THEN @ ELSE Val(interval),
              !.blink_interval_variation =
                  IF IsNone(variation) THEN @ ELSE Val(variation)]

set_idle_mode(e, active, interval, variation) ==
    [e EXCEPT !.idle = active,
              !.idle_interval = IF IsNone(interval) THEN @ ELSE Val(interval),
              !.idle_interval_variation =
                  IF IsNone(variation) THEN @ ELSE Val(variation)]

\* The position setter.
set_position(e, direction) ==
    LET max_x == get_screen_constraint_x(e)
        max_y == get_screen_constraint_y(e)
        xy == CASE direction = N  -> <<max_x \div 2, 0>>
                [] direction = NE -> <<max_x, 0>>
                [] direction = E  -> <<max_x, max_y \div 2>>
                [] direction = SE -> <<max_x, max_y>>
                [] direction = S  -> <<max_x \div 2, max_y>>
                [] direction = SW -> <<0, max_y>>
                [] direction = W  -> <<0, max_y \div 2>>
                [] direction = NW -> <<0, 0>>
                [] OTHER          -> <<max_x \div 2, max_y \div 2>>
    IN  [e EXCEPT !.eye_l_x_next = xy[1],
                  !.eye_l_y_next = xy[2],
                  !.position = direction]

\* A close that sets the target height and leaves the open flag alone.
close_leaving_open(e, left, right) ==
    IF IsNone(left) /\ IsNone(right)
    THEN [e EXCEPT !.eye_l_height_next = 1, !.eye_r_height_next = 1]
    ELSE LET e1 == IF ~IsNone(left) THEN [e EXCEPT !.eye_l_height_next = 1] ELSE e
         IN  IF ~IsNone(right) THEN [e1 EXCEPT !.eye_r_height_next = 1] ELSE e1

close(e, left, right) ==
    IF IsNone(left) /\ IsNone(right)
    THEN [e EXCEPT !.eye_l_height_next = 1, !.eye_r_height_next = 1,
                   !.eye_l_open = FALSE, !.eye_r_open = FALSE]
    ELSE LET e1 == IF ~IsNone(left)
                   THEN [e EXCEPT !.eye_l_height_next = 1, !.eye_l_open = FALSE]
                   ELSE e
         IN  IF ~IsNone(right)
             THEN [e1 EXCEPT !.eye_r_height_next = 1, !.eye_r_open = FALSE]
             ELSE e1

open(e, left, right) ==
    IF IsNone(left) /\ IsNone(right)
    THEN [e EXCEPT !.eye_l_open = TRUE, !.eye_r_open = TRUE]
    ELSE LET e1 == IF ~IsNone(left) THEN [e EXCEPT !.eye_l_open = TRUE] ELSE e
         IN  IF ~IsNone(right) THEN [e1 EXCEPT !.eye_r_open = TRUE] ELSE e1

blink(e, left, right) ==
    IF IsNone(left) /\ IsNone(right)
    THEN open(close(e, None, None), None, None)
    ELSE open(close(e, left, right), left, right)

\* A confuse that restarts a gesture in flight.
confuse_restarting(e) == [e EXCEPT !.confused = TRUE, !.confused_toggle = TRUE]

confuse(e) == [e EXCEPT !.confused = TRUE]

laugh(e) == [e EXCEPT !.laugh = TRUE]

\* A wink that switches the auto-blinker off and leaves idle mode alone.
wink_leaving_idle(e, left, right) ==
    IF ~(Truthy(left) \/ Truthy(right))
    THEN [raised |-> TRUE, eng |-> e]
    ELSE [raised |-> FALSE,
          eng |-> blink([e EXCEPT !.autoblinker = FALSE], left, right)]

\* A wink that checks its arguments only after switching the macros off.
wink_checking_late(e, left, right) ==
    IF ~(Truthy(left) \/ Truthy(right))
    THEN [raised |-> TRUE,
          eng |-> [e EXCEPT !.autoblinker = FALSE, !.idle = FALSE]]
    ELSE [raised |-> FALSE,
          eng |-> blink([e EXCEPT !.autoblinker = FALSE, !.idle = FALSE],
                        left, right)]

\* wink returns the outcome: raised (ValueError) and the engine afterwards.
wink(e, left, right) ==
    IF ~(Truthy(left) \/ Truthy(right))
    THEN [raised |-> TRUE, eng |-> e]
    ELSE [raised |-> FALSE,
          eng |-> blink([e EXCEPT !.autoblinker = FALSE, !.idle = FALSE],
                        left, right)]

----------------------------------------------------------------------------
(* draw_eyes, section by section, in the order of the source               *)

\* Curious offsets that take the right eye's target from the left eye's.
curious_offsets_from_left_target(e) ==
    IF e.curious
    THEN [e EXCEPT
            !.eye_l_height_offset =
                IF e.eye_l_x_next <= CuriousMargin THEN CuriousOffset
                ELSE IF e.eye_l_x_next >= get_screen_constraint_x(e) - CuriousMargin
                        /\ e.cyclops
                     THEN CuriousOffset
                     ELSE 0,
            !.eye_r_height_offset =
                IF e.eye_l_x_next + e.eye_l_width_current + e.space_between_current >=
                       e.screen_width - e.eye_r_width_current - CuriousMargin
                THEN CuriousOffset
                ELSE 0]
    ELSE [e EXCEPT !.eye_l_height_offset = 0, !.eye_r_height_offset = 0]

\* Curious mode: the outer eye gets taller when looking left or right.
curious_offsets(e) ==
    IF e.curious
    THEN [e EXCEPT
            !.eye_l_height_offset =
                IF e.eye_l_x_next <= CuriousMargin THEN CuriousOffset
                ELSE IF e.eye_l_x_next >= get_screen_constraint_x(e) - CuriousMargin
                        /\ e.cyclops
                     THEN CuriousOffset
                     ELSE 0,
            !.eye_r_height_offset =
                IF e.eye_r_x_next >=
                       e.screen_width - e.eye_r_width_current - CuriousMargin
                THEN CuriousOffset
                ELSE 0]
    ELSE [e EXCEPT !.eye_l_height_offset = 0, !.eye_r_height_offset = 0]

\* Height smoothing whose re-centering rounds its half-difference up.
smooth_heights_recentering_up(e) ==
    LET lh == (e.eye_l_height_current + e.eye_l_height_next
                   + e.eye_l_height_offset) \div 2
        rh == (e.eye_r_height_current + e.eye_r_height_next
                   + e.eye_r_height_offset) \div 2
    IN  [e EXCEPT
            !.eye_l_height_current = lh,
            !.eye_l_y = (@ + ((e.eye_l_height_default - lh + 1) \div 2))
                            - (e.eye_l_height_offset \div 2),
            !.eye_r_height_current = rh,
            !.eye_r_y = (@ + ((e.eye_r_height_default - rh + 1) \div 2))
                            - (e.eye_r_height_offset \div 2)]

\* Height smoothing and vertical re-centering.
smooth_heights(e) ==
    LET lh == (e.eye_l_height_current + e.eye_l_height_next
                   + e.eye_l_height_offset) \div 2
        rh == (e.eye_r_height_current + e.eye_r_height_next
                   + e.eye_r_height_offset) \div 2
    IN  [e EXCEPT
            !.eye_l_height_current = lh,
            !.eye_l_y = (@ + ((e.eye_l_height_default - lh) \div 2))
                            - (e.eye_l_height_offset \div 2),
            !.eye_r_height_current = rh,
            !.eye_r_y = (@ + ((e.eye_r_height_default - rh) \div 2))
                            - (e.eye_r_height_offset \div 2)]

\* A reopen that waits for a height below 1.
reopen_strict(e) ==
    [e EXCEPT
        !.eye_l_height_next =
            IF e.eye_l_open /\ e.eye_l_height_current < 1 + e.eye_l_height_offset
            THEN e.eye_l_height_default ELSE @,
        !.eye_r_height_next =
            IF e.eye_r_open /\ e.eye_r_height_current < 1 + e.eye_r_height_offset
            THEN e.eye_r_height_default ELSE @]

\* A reopen that does not wait for the eye to close.
reopen_at_once(e) ==
    [e EXCEPT
        !.eye_l_height_next = IF e.eye_l_open THEN e.eye_l_height_default ELSE @,
        !.eye_r_height_next = IF e.eye_r_open THEN e.eye_r_height_default ELSE @]

\* "Open eyes if needed".
reopen(e) ==
    [e EXCEPT
        !.eye_l_height_next =
            IF e.eye_l_open /\ e.eye_l_height_current <= 1 + e.eye_l_height_offset
            THEN e.eye_l_height_default ELSE @,
        !.eye_r_height_next =
            IF e.eye_r_open /\ e.eye_r_height_current <= 1 + e.eye_r_height_offset
            THEN e.eye_r_height_default ELSE @]

\* Width and spacing smoothing that moves one and a half times the distance.
smooth_widths_overshooting(e) ==
    [e EXCEPT
        !.eye_l_width_current = @ + ((3 * (e.eye_l_width_next - @)) \div 2),
        !.eye_r_width_current = @ + ((3 * (e.eye_r_width_next - @)) \div 2),
        !.space_between_current = @ + ((3 * (e.space_between_next - @)) \div 2)]

\* Widths and spacing.
smooth_widths(e) ==
    [e EXCEPT
        !.eye_l_width_current = (@ + e.eye_l_width_next) \div 2,
        !.eye_r_width_current = (@ + e.eye_r_width_next) \div 2,
        !.space_between_current = (@ + e.space_between_next) \div 2]

\* A right-eye target computed from the left eye's target width.
right_eye_x_next_from_target_width(e) ==
    e.eye_l_x_next + e.eye_l_width_next + e.space_between_current

\* The right eye's target, recomputed from the left eye's on every tick.
right_eye_x_next(e) ==
    e.eye_l_x_next + e.eye_l_width_current + e.space_between_current

\* Position smoothing that rounds the average up.
smooth_positions_rounding_up(e) ==
    LET rxn == right_eye_x_next(e)
        ryn == e.eye_l_y_next
    IN  [e EXCEPT
            !.eye_l_x = (@ + e.eye_l_x_next + 1) \div 2,
            !.eye_l_y = (@ + e.eye_l_y_next + 1) \div 2,
            !.eye_r_x_next = rxn,
            !.eye_r_y_next = ryn,
            !.eye_r_x = (@ + rxn + 1) \div 2,
            !.eye_r_y = (@ + ryn + 1) \div 2]

\* Positions.
smooth_positions(e) ==
    LET rxn == right_eye_x_next(e)
        ryn == e.eye_l_y_next
    IN  [e EXCEPT
            !.eye_l_x = (@ + e.eye_l_x_next) \div 2,
            !.eye_l_y = (@ + e.eye_l_y_next) \div 2,
            !.eye_r_x_next = rxn,
            !.eye_r_y_next = ryn,
            !.eye_r_x = (@ + rxn) \div 2,
            !.eye_r_y = (@ + ryn) \div 2]

\* Border radius.
smooth_radius(e) ==
    [e EXCEPT
        !.eye_l_border_radius_current = (@ + e.eye_l_border_radius_next) \div 2,
        !.eye_r_border_radius_current = (@ + e.eye_r_border_radius_next) \div 2]

\* Whether the auto-blinker fires on a tick at time t.
auto_blink_due(e, t) == e.autoblinker /\ t - e.blink_timer >= 0

\* An auto-blink that schedules the next fire from the time the last was due.
auto_blink_from_due_time(e, t, k) ==
    IF auto_blink_due(e, t)
    THEN [blink(e, None, None) EXCEPT
             !.blink_timer = @ + (e.blink_interval * 1000) + (k * 1000)]
    ELSE e

\* Auto-blink; k is the draw random.randint(0, blink_interval_variation).
auto_blink(e, t, k) ==
    IF auto_blink_due(e, t)
    THEN [blink(e, None, None) EXCEPT
             !.blink_timer = t + (e.blink_interval * 1000) + (k * 1000)]
    ELSE e

\* A laugh that, when it ends, stops the horizontal flicker as well.
laugh_macro_stopping_both_axes(e, t) ==
    IF e.laugh
    THEN IF e.laugh_toggle
         THEN [vert_flicker(e, TRUE, Some(LaughAmplitude)) EXCEPT
                  !.laugh_animation_timer = t,
                  !.laugh_toggle = FALSE]
         ELSE IF t - e.laugh_animation_timer >= e.laugh_animation_duration
              THEN [horiz_flicker(vert_flicker(e, FALSE, Some(0)), FALSE, Some(0)) EXCEPT
                       !.laugh_toggle = TRUE,
                       !.laugh = FALSE]
              ELSE e
    ELSE e

\* Laughing.
laugh_macro(e, t) ==
    IF e.laugh
    THEN IF e.laugh_toggle
         THEN [vert_flicker(e, TRUE, Some(LaughAmplitude)) EXCEPT
                  !.laugh_animation_timer = t,
                  !.laugh_toggle = FALSE]
         ELSE IF t - e.laugh_animation_timer >= e.laugh_animation_duration
              THEN [vert_flicker(e, FALSE, Some(0)) EXCEPT
                       !.laugh_toggle = TRUE,
                       !.laugh = FALSE]
              ELSE e
    ELSE e

\* A confuse macro that ends only after more than the duration.
confuse_macro_late(e, t) ==
    IF e.confused
    THEN IF e.confused_toggle
         THEN [horiz_flicker(e, TRUE, Some(ConfusedAmplitude)) EXCEPT
                  !.confused_animation_timer = t,
                  !.confused_toggle = FALSE]
         ELSE IF t - e.confused_animation_timer > e.confused_animation_duration
              THEN [horiz_flicker(e, FALSE, Some(0)) EXCEPT
                       !.confused_toggle = TRUE,
                       !.confused = FALSE]
              ELSE e
    ELSE e

\* Confused.
confuse_macro(e, t) ==
    IF e.confused
    THEN IF e.confused_toggle
         THEN [horiz_flicker(e, TRUE, Some(ConfusedAmplitude)) EXCEPT
                  !.confused_animation_timer = t,
                  !.confused_toggle = FALSE]
         ELSE IF t - e.confused_animation_timer >= e.confused_animation_duration
              THEN [horiz_flicker(e, FALSE, Some(0)) EXCEPT
                       !.confused_toggle = TRUE,
                       !.confused = FALSE]
              ELSE e
    ELSE e

\* Whether the idle macro fires on a tick at time t.
idle_due(e, t) == e.idle /\ t - e.idle_animation_timer >= 0

\* An idle macro that schedules the next fire from the time the last was due.
idle_macro_from_due_time(e, t, x, y, k) ==
    IF idle_due(e, t)
    THEN [e EXCEPT
             !.eye_l_x_next = x,
             !.eye_l_y_next = y,
             !.idle_animation_timer = @ + (e.idle_interval * 1000) + (k * 1000)]
    ELSE e

\* Idle mode; x, y and k are the three random.randint draws.
idle_macro(e, t, x, y, k) ==
    IF idle_due(e, t)
    THEN [e EXCEPT
             !.eye_l_x_next = x,
             !.eye_l_y_next = y,
             !.idle_animation_timer = t + (e.idle_interval * 1000) + (k * 1000)]
    ELSE e

\* A flicker that ignores the phase flag.
h_flicker_offset_one_sided(e) ==
    IF e.h_flicker THEN -e.h_flicker_amplitude ELSE 0

\* The offset the horizontal flicker adds to both eyes' x on this tick.
h_flicker_offset(e) ==
    IF e.h_flicker
    THEN IF e.h_flicker_alternate THEN e.h_flicker_amplitude
                                  ELSE -e.h_flicker_amplitude
    ELSE 0

apply_h_flicker(e) ==
    IF e.h_flicker
    THEN [e EXCEPT !.eye_l_x = @ + h_flicker_offset(e),
                   !.eye_r_x = @ + h_flicker_offset(e),
                   !.h_flicker_alternate = ~@]
    ELSE e

\* The offset the vertical flicker adds to both eyes' y on this tick.
v_flicker_offset(e) ==
    IF e.v_flicker
    THEN IF e.v_flicker_alternate THEN e.v_flicker_amplitude
                                  ELSE -e.v_flicker_amplitude
    ELSE 0

\* A vertical flicker that takes its sign from the horizontal phase flag.
apply_v_flicker_on_h_phase(e) ==
    IF e.v_flicker
    THEN [e EXCEPT !.eye_l_y = @ + (IF e.h_flicker_alternate THEN e.v_flicker_amplitude
                                                            ELSE -e.v_flicker_amplitude),
                   !.eye_r_y = @ + (IF e.h_flicker_alternate THEN e.v_flicker_amplitude
                                                            ELSE -e.v_flicker_amplitude),
                   !.v_flicker_alternate = ~@]
    ELSE e

apply_v_flicker(e) ==
    IF e.v_flicker
    THEN [e EXCEPT !.eye_l_y = @ + v_flicker_offset(e),
                   !.eye_r_y = @ + v_flicker_offset(e),
                   !.v_flicker_alternate = ~@]
    ELSE e

\* A clamp that forgets the height.
clamp_radius_width_only(w, h, r) == Min2(r, w \div 2)

\* draw_rounded_rect clamps the radius it draws with.
clamp_radius(w, h, r) == Min3(r, w \div 2, h \div 2)

\* The radius each eye is drawn with.
drawn_radius_l(e) ==
    clamp_radius(e.eye_l_width_current, e.eye_l_height_current,
                 e.eye_l_border_radius_current)

drawn_radius_r(e) ==
    clamp_radius(e.eye_r_width_current, e.eye_r_height_current,
                 e.eye_r_border_radius_current)

\* Mood transitions with eyelids that drop at once to a target of 0.
mood_eyelids_snapping_shut(e) ==
    LET half == e.eye_l_height_current \div 2
        tired_next == IF e.angry THEN 0 ELSE IF e.tired THEN half ELSE 0
        angry_next == IF e.angry THEN half ELSE 0
        happy_next == IF e.happy THEN half ELSE 0
    IN  [e EXCEPT
            !.eyelids_tired_height_next = tired_next,
            !.eyelids_angry_height_next = angry_next,
            !.eyelids_happy_bottom_offset_next = happy_next,
            !.eyelids_tired_height = IF tired_next = 0 THEN 0 ELSE (@ + tired_next) \div 2,
            !.eyelids_angry_height = IF angry_next = 0 THEN 0 ELSE (@ + angry_next) \div 2,
            !.eyelids_happy_bottom_offset =
                IF happy_next = 0 THEN 0 ELSE (@ + happy_next) \div 2]

\* Mood transitions: eyelid targets, then eyelid smoothing.
mood_eyelids(e) ==
    LET half == e.eye_l_height_current \div 2
        tired_next == IF e.angry THEN 0 ELSE IF e.tired THEN half ELSE 0
        angry_next == IF e.angry THEN half ELSE 0
        happy_next == IF e.happy THEN half ELSE 0
    IN  [e EXCEPT
            !.eyelids_tired_height_next = tired_next,
            !.eyelids_angry_height_next = angry_next,
            !.eyelids_happy_bottom_offset_next = happy_next,
            !.eyelids_tired_height = (@ + tired_next) \div 2,
            !.eyelids_angry_height = (@ + angry_next) \div 2,
            !.eyelids_happy_bottom_offset = (@ + happy_next) \div 2]

\* The geometry part of a tick, up to the macro animations.
smooth_geometry(e) ==
    smooth_radius(smooth_positions(smooth_widths(reopen(smooth_heights(
        curious_offsets(e))))))

\* One tick at clock reading t; rnd holds the random draws
\* [blink_k, idle_x, idle_y, idle_k].
draw_eyes(e, t, rnd) ==
    LET g  == smooth_geometry(e)
        m1 == auto_blink(g, t, rnd.blink_k)
        m2 == laugh_macro(m1, t)
        m3 == confuse_macro(m2, t)
        m4 == idle_macro(m3, t, rnd.idle_x, rnd.idle_y, rnd.idle_k)
        f  == apply_v_flicker(apply_h_flicker(m4))
    IN  mood_eyelids(f)

\* The buffer as __init__ leaves it: background colour everywhere.
BlankFrame == [cleared |-> TRUE]

\* The buffer as draw_eyes leaves engine e: cleared, then the eye rectangles,
\* the tired and angry eyelid triangles and the happy eyelid rectangles.
Frame(e) ==
    [ cleared |-> TRUE,
      left    |-> <<e.eye_l_x, e.eye_l_y, e.eye_l_width_current,
                    e.eye_l_height_current, drawn_radius_l(e)>>,
      right   |-> IF e.cyclops THEN <<>>
                  ELSE <<e.eye_r_x, e.eye_r_y, e.eye_r_width_current,
                         e.eye_r_height_current, drawn_radius_r(e)>>,
      cyclops |-> e.cyclops,
      tired   |-> e.eyelids_tired_height,
      angry   |-> e.eyelids_angry_height,
      happy   |-> <<e.eyelids_happy_bottom_offset, e.eye_l_height_default,
                    IF e.cyclops THEN 0 ELSE e.eye_r_height_default>> ]

----------------------------------------------------------------------------
(* StepData and Sequence                                                   *)

\* A Sequence as Sequence.__init__ leaves it: not started, no steps.
NewSequence == [start |-> None, steps |-> <<>>]

\* StepData.__init__
NewStepData(ms_timing, callback) ==
    [done |-> FALSE, ms_timing |-> ms_timing, callback |-> callback]

\* The callbacks of the model: what calling each does to the engine it is
\* passed.
Invoke(callback, e) ==
    CASE callback = "laugh" -> laugh(e)
      [] callback = "close" -> close(e, None, None)

\* A StepData.update that does not look at the clock.
StepData_update_eager(st, start, ticks, e) ==
    IF st.done
    THEN [step |-> st, fired |-> FALSE, eng |-> e]
    ELSE [step  |-> [st EXCEPT !.done = TRUE],
          fired |-> TRUE,
          eng   |-> Invoke(st.callback, e)]

\* StepData.update, for a step of a sequence started at start, with owner e:
\* the step after the call, whether the callback was invoked, the owner after.
StepData_update(st, start, ticks, e) ==
    IF st.done
    THEN [step |-> st, fired |-> FALSE, eng |-> e]
    ELSE IF ticks - start < st.ms_timing
    THEN [step |-> st, fired |-> FALSE, eng |-> e]
    ELSE [step  |-> [st EXCEPT !.done = TRUE],
          fired |-> TRUE,
          eng   |-> Invoke(st.callback, e)]

Sequence_step(q, ms_timing, callback) ==
    [q EXCEPT !.steps = Append(@, NewStepData(ms_timing, callback))]

Sequence_start(q, clock) == [q EXCEPT !.start = Some(clock)]

\* A reset that clears the start time only.
Sequence_reset_keeping_flags(q) == [q EXCEPT !.start = None]

Sequence_reset(q) ==
    [start |-> None,
     steps |-> [i \in DOMAIN q.steps |-> [q.steps[i] EXCEPT !.done = FALSE]]]

\* A done that does not look at the start time.
Sequence_done_of_steps(q) == \A i \in DOMAIN q.steps : q.steps[i].done

\* The done property.
Sequence_done(q) ==
    IF IsNone(q.start) THEN TRUE
    ELSE \A i \in DOMAIN q.steps : q.steps[i].done

\* The loop of Sequence.update from step i on; acc holds the steps, the
\* indices of the callbacks invoked so far, in order, and the owner.
RECURSIVE update_steps(_, _, _, _)
update_steps(acc, i, start, ticks) ==
    IF i > Len(acc.steps) THEN acc
    ELSE IF acc.steps[i].done THEN update_steps(acc, i + 1, start, ticks)
    ELSE LET r == StepData_update(acc.steps[i], start, ticks, acc.eng)
         IN  update_steps(
                 [steps |-> [acc.steps EXCEPT ![i] = r.step],
                  log   |-> IF r.fired THEN Append(acc.log, i) ELSE acc.log,
                  eng   |-> r.eng],
                 i + 1, start, ticks)

\* A Sequence.update that invokes one callback per call at most: that of
\* the first step that is due.
Sequence_update_one_per_call(q, ticks, e) ==
    LET due == IF IsNone(q.start) THEN {}
               ELSE {i \in DOMAIN q.steps :
                       /\ ~q.steps[i].done
                       /\ ticks - Val(q.start) >= q.steps[i].ms_timing}
    IN  IF due = {}
        THEN [steps |-> q.steps, log |-> <<>>, eng |-> e]
        ELSE LET i == CHOOSE m \in due : \A n \in due : m <= n
             IN  [steps |-> [q.steps EXCEPT ![i].done = TRUE],
                  log   |-> <<i>>,
                  eng   |-> Invoke(q.steps[i].callback, e)]

\* Sequence.update(ticks) on sequence q with owner e.
Sequence_update(q, ticks, e) ==
    IF IsNone(q.start)
    THEN [steps |-> q.steps, log |-> <<>>, eng |-> e]
    ELSE update_steps([steps |-> q.steps, log |-> <<>>, eng |-> e],
                      1, Val(q.start), ticks)

----------------------------------------------------------------------------
(* The driver: one action per public call                                  *)

\* Bounds of the model.
ClockStart == 1000      \* the clock reading at construction
MaxCalls == 3           \* mutator calls a driver makes in the free-running specifications
GestureHorizon == 900   \* ms of clock the gesture specification covers
MaxWinkCalls == 3       \* mutator calls in the wink specification
WinkHorizon == 2000     \* ms of clock the wink specification covers
MaxSetup == 2           \* mutator calls before the final call of a scenario
SettleTicks == 16       \* ticks after the final call of a scenario that are "enough"
MaxAfterClose == 1      \* mutator calls between close() and open() in the close scenario
MaxMutCalls == 2        \* mutator calls in the specification of all mutators
MutHorizon == 300       \* ms of clock covered by that specification
MaxSteps == 2           \* steps added to a sequence
UpdHorizon == 50        \* ms of clock covered by the specification of update()
ErrHorizon == 300       \* ms of clock covered by the specification of failing ticks
DrawMax == 7            \* largest coordinate and size handed to the drawing methods
SeqHorizon == 300       \* ms of clock covered by the specification of sequences

Op(name, args, raised) == [op |-> name, args |-> args, raised |-> raised]

\* No random draw is consumed on a tick where neither auto-blink nor idle fires.
NoDraws == [blink_k |-> 0, idle_x |-> 0, idle_y |-> 0, idle_k |-> 0]

\* With every timed macro off, draw_eyes does not use its clock reading.
Quiet(e) == ~e.autoblinker /\ ~e.idle /\ ~e.laugh /\ ~e.confused

\* RoboEyes.__init__ (src/roboeyes.py), reading the clock as t: the
\* attributes FastRoboEyes.__init__ assigns, then clear_display() and
\* draw_eyes().
RoboEyes_init(width, height, t) == draw_eyes(NewEngine(width, height), t, NoDraws)

InitHist(e) ==
    [ calls    |-> 0,               \* mutator calls made so far
      rxn_for  |-> e.eye_l_x_next,  \* eye_l_x_next when eye_r_x_next was last assigned
      h_count  |-> 0,    \* horizontal flicker applications since the last confuse stamp
      h_net    |-> 0,    \* sum of the horizontal flicker offsets since that stamp
      g_ticks  |-> 0,    \* ticks since that stamp, the stamping tick included,
                         \* the tick that ends the gesture excluded
      g_done   |-> 0,    \* confuse gestures that have ended
      below_x  |-> FALSE, \* eye_l_x was left of its target at the final set_position
      below_y  |-> FALSE, \* eye_l_y was above its target at the final set_position
      setup    |-> 0,    \* mutator calls made before the final call of a scenario
      after    |-> 0,    \* ticks since the final call of a scenario, counted up to
                         \* SettleTicks ("SettleTicks or more")
      wink_ab  |-> FALSE, \* a wink() succeeded and set_auto_blinker(True) was not called since
      wink_idle |-> FALSE, \* a wink() succeeded and set_idle_mode(True) was not called since
      closed_l |-> FALSE, \* the final close() of a scenario targeted the left eye
      closed_r |-> FALSE, \* ... the right eye
      kept_l   |-> FALSE, \* closed_l, and no eyes_height gave the left eye a height since
      kept_r   |-> FALSE, \* closed_r, and no eyes_height gave the right eye a height since
      fires    |-> <<>>,  \* per step: callback invocations since the last reset()
      total    |-> <<>>,  \* per step: callback invocations ever, counted up to 2
      log      |-> <<>>,  \* the steps whose callback the last update invoked, in order
      seq0     |-> NewSequence, \* the sequence as the last operation found it
      was_reset |-> FALSE, \* reset() was called
      redrew   |-> FALSE, \* the last update() ran draw_eyes
      drawn_at |-> None,  \* the clock reading of the last update() that redrew
      since    |-> None,  \* at a redraw: ms since the redraw before it, if any
      cb_eng   |-> e,     \* the engine as the sequences part of the last update() left it
      twice    |-> FALSE, \* the last operation is a call that repeats, with the same
                          \* arguments, the call made just before it
      robo     |-> RoboEyes_init(e.screen_width, e.screen_height, ClockStart),
                          \* a RoboEyes built with the configuration of e; the
                          \* twin actions drive it alongside e
      auto_fired |-> FALSE, \* the last tick called blink() from the auto-blinker
      auto_at  |-> None,  \* the clock reading of the last such tick since the
                          \* last set_auto_blinker call
      auto_gap |-> None,  \* at such a tick: ms since the one before it, if any
      idle_fired |-> FALSE, \* the last tick ran the idle macro
      auto_on  |-> None ] \* the clock reading of the last set_auto_blinker call
                          \* with active true, if none with active false followed

\* The state of the macro section as the flicker section finds it.
before_flicker(e, t, rnd) ==
    idle_macro(confuse_macro(laugh_macro(
        auto_blink(smooth_geometry(e), t, rnd.blink_k), t), t),
        t, rnd.idle_x, rnd.idle_y, rnd.idle_k)

\* History after a tick of engine e at time t, the driver being in phase ph.
HistTick(h, e, t, rnd, ph) ==
    LET m      == before_flicker(e, t, rnd)
        stamps == e.confused /\ e.confused_toggle
        ends   == e.confused /\ ~e.confused_toggle /\ ~m.confused
        base   == IF stamps THEN [h EXCEPT !.h_count = 0, !.h_net = 0, !.g_ticks = 0]
                            ELSE h
    IN  [base EXCEPT
            !.rxn_for = e.eye_l_x_next,
            !.h_count = IF m.h_flicker THEN @ + 1 ELSE @,
            !.h_net   = @ + h_flicker_offset(m),
            !.g_ticks = IF m.confused THEN @ + 1 ELSE @,
            !.g_done  = IF ends THEN @ + 1 ELSE @,
            !.twice   = FALSE,
            !.after   = IF ph \in {"blinked", "final", "closed", "opened"}
                        THEN Min2(@ + 1, SettleTicks) ELSE @]

\* A mutator call that leaves the engine as e2.
Call(e2, name, args, raised) ==
    /\ eng' = e2
    /\ pre' = eng
    /\ last' = Op(name, args, raised)
    /\ UNCHANGED <<now, buffer, seq>>

\* The call counts against the driver's budget of mutator calls.
Counted ==
    /\ hist.calls < MaxCalls
    /\ hist' = [hist EXCEPT !.calls = @ + 1]
    /\ UNCHANGED phase

\* A call of the setup part of a scenario.
Setup ==
    /\ phase = "setup"
    /\ hist.setup < MaxSetup
    /\ hist' = [hist EXCEPT !.setup = @ + 1]
    /\ UNCHANGED phase

\* A tick (a draw_eyes call) d ms after the previous clock reading.
Tick(d, rnd) ==
    /\ now' = now + d
    /\ eng' = draw_eyes(eng, now + d, rnd)
    /\ buffer' = Frame(eng')
    /\ pre' = eng
    /\ last' = Op("tick", <<>>, FALSE)
    /\ hist' = HistTick(hist, eng, now + d, rnd, phase)
    /\ UNCHANGED <<phase, seq>>

\* A tick of an engine with every timed macro off: the clock plays no part.
TickQuiet ==
    /\ Quiet(eng)
    /\ eng' = draw_eyes(eng, now, NoDraws)
    /\ buffer' = Frame(eng')
    /\ pre' = eng
    /\ last' = Op("tick", <<>>, FALSE)
    /\ hist' = HistTick(hist, eng, now, NoDraws, phase)
    /\ UNCHANGED <<now, phase, seq>>

\* The values the model draws for random.randint(0, n): both ends.
Picks(n) == IF n < 0 THEN {} ELSE {0, n}

\* The random draws a tick of engine e at time t can consume.
Draws(e, t) ==
    LET g  == smooth_geometry(e)
        m3 == confuse_macro(laugh_macro(auto_blink(g, t, 0), t), t)
    IN  [ blink_k : IF auto_blink_due(g, t)
                    THEN Picks(g.blink_interval_variation) ELSE {0},
          idle_x  : IF idle_due(m3, t)
                    THEN Picks(get_screen_constraint_x(m3)) ELSE {0},
          idle_y  : IF idle_due(m3, t)
                    THEN Picks(get_screen_constraint_y(m3)) ELSE {0},
          idle_k  : IF idle_due(m3, t)
                    THEN Picks(m3.idle_interval_variation) ELSE {0} ]

\* A tick d ms after the last clock reading, for d in deltas, within the horizon.
TickTimed(deltas, horizon) ==
    \E d \in deltas :
        /\ now + d <= ClockStart + horizon
        /\ \E rnd \in Draws(eng, now + d) : Tick(d, rnd)

InitWith(e, ph) ==
    /\ eng = e
    /\ pre = e
    /\ now = ClockStart
    /\ last = Op("init", <<>>, FALSE)
    /\ hist = InitHist(e)
    /\ phase = ph
    /\ buffer = BlankFrame
    /\ seq = NewSequence

----------------------------------------------------------------------------
(* The mutator calls, each over the arguments a specification passes       *)

EyesWidthCall(args) ==
    \E a \in args : Call(eyes_width(eng, a[1], a[2]), "eyes_width", a, FALSE)

EyesHeightCall(args) ==
    \E a \in args : Call(eyes_height(eng, a[1], a[2]), "eyes_height", a, FALSE)

EyesRadiusCall(args) ==
    \E a \in args : Call(eyes_radius(eng, a[1], a[2]), "eyes_radius", a, FALSE)

EyesSpacingCall(args) ==
    \E a \in args : Call(eyes_spacing(eng, a), "eyes_spacing", <<a>>, FALSE)

CloseCall(args) ==
    \E a \in args : Call(close(eng, a[1], a[2]), "close", a, FALSE)

OpenCall(args) ==
    \E a \in args : Call(open(eng, a[1], a[2]), "open", a, FALSE)

BlinkCall(args) ==
    \E a \in args : Call(blink(eng, a[1], a[2]), "blink", a, FALSE)

CuriousCall(args) ==
    \E a \in args : Call(set_curious(eng, a), "set_curious", <<a>>, FALSE)

CyclopsCall(args) ==
    \E a \in args : Call(set_cyclops(eng, a), "set_cyclops", <<a>>, FALSE)

PositionCall(args) ==
    \E a \in args : Call(set_position(eng, a), "set_position", <<a>>, FALSE)

MoodCall(args) ==
    \E a \in args : Call(set_mood(eng, a), "mood", <<a>>, FALSE)

IdleModeCall(args) ==
    \E a \in args :
        Call(set_idle_mode(eng, a[1], a[2], a[3]), "set_idle_mode", a, FALSE)

AutoBlinkerCall(args) ==
    \E a \in args :
        Call(set_auto_blinker(eng, a[1], a[2], a[3]), "set_auto_blinker", a, FALSE)

WinkCall(args) ==
    \E a \in args :
        LET w == wink(eng, a[1], a[2]) IN Call(w.eng, "wink", a, w.raised)

ConfuseCall == Call(confuse(eng), "confuse", <<>>, FALSE)

LaughCall == Call(laugh(eng), "laugh", <<>>, FALSE)

----------------------------------------------------------------------------
(* SpecGesture: confuse and laugh under ticks at varying intervals         *)

GestureDeltas == {100, 250}

DoConfuse == Call(confuse(eng), "confuse", <<>>, FALSE) /\ UNCHANGED <<hist, phase>>

DoLaugh == Call(laugh(eng), "laugh", <<>>, FALSE) /\ UNCHANGED <<hist, phase>>

TickGesture ==
    \E d \in GestureDeltas :
        /\ now + d <= ClockStart + GestureHorizon
        /\ Tick(d, NoDraws)

InitGesture == InitWith(NewEngine(320, 240), "run")

NextGesture == DoConfuse \/ DoLaugh \/ TickGesture

SpecGesture == InitGesture /\ [][NextGesture]_vars


\* The last step was a tick that found the confuse gesture stamped and ended it.
ConfuseEnded ==
    /\ last.op = "tick"
    /\ pre.confused /\ ~pre.confused_toggle
    /\ ~eng.confused

\* C7: after confuse() (resp. laugh()) the first tick enables horizontal flicker
\* with amplitude 20 (resp. vertical, 5) and stamps the start time with the
\* tick's clock reading; on every tick less than 500 ms after the stamp the
\* flicker stays enabled and the stamp stays; the first tick 500 ms or more after
\* the stamp disables the flicker and clears the active flag, and an inactive
\* gesture is always ready to be stamped again.
C7_GestureTiming ==
    /\ (eng.confused /\ ~eng.confused_toggle)
          => (eng.h_flicker /\ eng.h_flicker_amplitude = 20)
    /\ (eng.laugh /\ ~eng.laugh_toggle)
          => (eng.v_flicker /\ eng.v_flicker_amplitude = 5)
    /\ ~eng.confused => (eng.confused_toggle /\ ~eng.h_flicker)
    /\ ~eng.laugh => (eng.laugh_toggle /\ ~eng.v_flicker)
    /\ last.op = "confuse" => eng.confused
    /\ last.op = "laugh" => eng.laugh
    /\ last.op = "tick" =>
        /\ (pre.confused /\ pre.confused_toggle) =>
              /\ eng.confused /\ ~eng.confused_toggle
              /\ eng.h_flicker /\ eng.h_flicker_amplitude = 20
              /\ eng.confused_animation_timer = now
        /\ (pre.confused /\ ~pre.confused_toggle
                /\ now - pre.confused_animation_timer < 500) =>
              /\ eng.confused /\ ~eng.confused_toggle
              /\ eng.h_flicker /\ eng.h_flicker_amplitude = 20
              /\ eng.confused_animation_timer = pre.confused_animation_timer
        /\ (pre.confused /\ ~pre.confused_toggle
                /\ now - pre.confused_animation_timer >= 500) =>
              /\ ~eng.confused /\ eng.confused_toggle /\ ~eng.h_flicker
        /\ (pre.laugh /\ pre.laugh_toggle) =>
              /\ eng.laugh /\ ~eng.laugh_toggle
              /\ eng.v_flicker /\ eng.v_flicker_amplitude = 5
              /\ eng.laugh_animation_timer = now
        /\ (pre.laugh /\ ~pre.laugh_toggle
                /\ now - pre.laugh_animation_timer < 500) =>
              /\ eng.laugh /\ ~eng.laugh_toggle
              /\ eng.v_flicker /\ eng.v_flicker_amplitude = 5
              /\ eng.laugh_animation_timer = pre.laugh_animation_timer
        /\ (pre.laugh /\ ~pre.laugh_toggle
                /\ now - pre.laugh_animation_timer >= 500) =>
              /\ ~eng.laugh /\ eng.laugh_toggle /\ ~eng.v_flicker

\* A confuse gesture has run to its end, confuse() was called again, and the
\* second gesture is in flight on a tick after the one that stamped it.
C7_Witness ==
    /\ hist.g_done >= 1
    /\ eng.confused /\ ~eng.confused_toggle /\ eng.h_flicker
    /\ last.op = "tick"
    /\ now - eng.confused_animation_timer > 0

\* C8 as stated: when the tick exactly 500 ms after the stamp ends the confuse
\* gesture, horizontal flicker is disabled and was applied an even number of
\* times, with offsets that sum to zero.
C8_Original ==
    (ConfuseEnded /\ now - pre.confused_animation_timer = 500) =>
        /\ ~eng.h_flicker
        /\ hist.h_count % 2 = 0
        /\ hist.h_net = 0

\* C8 as amended: when a tick ends the confuse gesture, horizontal flicker is
\* disabled; the flicker was applied once on every tick from the stamping tick
\* up to, not including, the ending tick; the applied offsets sum to zero only
\* when that number is even, and to -20 or +20 (the sign of the first
\* application) when it is odd.
C8_FlickerParity ==
    ConfuseEnded =>
        /\ ~eng.h_flicker
        /\ hist.h_count = hist.g_ticks
        /\ hist.h_count >= 1
        /\ hist.h_count % 2 = 0 => hist.h_net = 0
        /\ hist.h_count % 2 = 1 =>
              hist.h_net = IF eng.h_flicker_alternate THEN -20 ELSE 20

\* The gesture ended exactly 500 ms after the stamp with an odd number of
\* applications and a residual of -20.
C8_Witness ==
    /\ ConfuseEnded
    /\ now - pre.confused_animation_timer = 500
    /\ hist.h_count = 5
    /\ hist.h_net = -20

\* C9: confuse() (resp. laugh()) called while that gesture is active changes
\* nothing in the engine, so the stamp, the amplitude and the ending tick are
\* those of the run without the second call.
C9_RetriggerNoEffect ==
    /\ (last.op = "confuse" /\ pre.confused) => eng = pre
    /\ (last.op = "laugh" /\ pre.laugh) => eng = pre

\* confuse() was called on a gesture that was stamped and flickering.
C9_Witness ==
    /\ last.op = "confuse"
    /\ pre.confused /\ ~pre.confused_toggle /\ pre.h_flicker
    /\ now - pre.confused_animation_timer > 0

----------------------------------------------------------------------------
(* SpecWink: wink against the auto-blinker and idle mode                   *)

\* The values passed for an optional side: omitted, ON, OFF.
SideArgs == {None, Some(ON), Some(OFF)}

\* The macro settings the driver passes: switch on with interval 0 s and
\* variation 1 s, or switch off leaving the intervals alone.
MacroArgs == {<<TRUE, Some(0), Some(1)>>, <<FALSE, None, None>>}

WinkDeltas == {1000}

\* The call counts against the budget and leaves the history as h.
WinkBudget(h) ==
    /\ hist.calls < MaxWinkCalls
    /\ hist' = [h EXCEPT !.calls = @ + 1]
    /\ UNCHANGED phase

DoWink ==
    \E l \in SideArgs, r \in SideArgs :
        LET w == wink(eng, l, r)
        IN  /\ WinkBudget(IF w.raised THEN hist
                          ELSE [hist EXCEPT !.wink_ab = TRUE, !.wink_idle = TRUE])
            /\ Call(w.eng, "wink", <<l, r>>, w.raised)

DoSetAutoBlinker ==
    \E a \in MacroArgs :
        /\ WinkBudget(IF a[1] THEN [hist EXCEPT !.wink_ab = FALSE] ELSE hist)
        /\ Call(set_auto_blinker(eng, a[1], a[2], a[3]), "set_auto_blinker", a, FALSE)

DoSetIdleMode ==
    \E a \in MacroArgs :
        /\ WinkBudget(IF a[1] THEN [hist EXCEPT !.wink_idle = FALSE] ELSE hist)
        /\ Call(set_idle_mode(eng, a[1], a[2], a[3]), "set_idle_mode", a, FALSE)

TickWink == TickTimed(WinkDeltas, WinkHorizon)

InitWink == InitWith(NewEngine(320, 240), "run")

NextWink == DoWink \/ DoSetAutoBlinker \/ DoSetIdleMode \/ TickWink

SpecWink == InitWink /\ [][NextWink]_vars

\* C10: wink() with neither side truthy (omitted or OFF) raises the usage error
\* and leaves every field of the engine as it was; with a truthy side it does
\* not raise.
C10_WinkUsageError ==
    last.op = "wink" =>
        /\ last.raised <=> ~(Truthy(last.args[1]) \/ Truthy(last.args[2]))
        /\ last.raised => eng = pre

\* wink() raised on an engine whose auto-blinker and idle mode were on and
\* whose eyes were open, and they still are.
C10_Witness ==
    /\ last.op = "wink" /\ last.raised
    /\ pre.autoblinker /\ pre.idle
    /\ eng.autoblinker /\ eng.idle
    /\ eng.eye_l_height_next = pre.eye_l_height_next
    /\ eng.eye_l_open = pre.eye_l_open

\* The last step was a wink() that did not raise.
Winked == last.op = "wink" /\ ~last.raised

\* C11: a wink with exactly one truthy side, the other side omitted or passed
\* as OFF, leaves the other eye's height_next and open flag unchanged.
C11_WinkOneSideOnly ==
    /\ (Winked /\ Truthy(last.args[1]) /\ ~Truthy(last.args[2])) =>
          /\ eng.eye_r_height_next = pre.eye_r_height_next
          /\ eng.eye_r_open = pre.eye_r_open
    /\ (Winked /\ ~Truthy(last.args[1]) /\ Truthy(last.args[2])) =>
          /\ eng.eye_l_height_next = pre.eye_l_height_next
          /\ eng.eye_l_open = pre.eye_l_open

\* The last tick did not call blink(): blink_timer was not restamped, and a
\* height_next that changed went to height_default (the reopening), not to 1.
NoBlinkOnTick ==
    /\ eng.blink_timer = pre.blink_timer
    /\ eng.eye_l_open = pre.eye_l_open /\ eng.eye_r_open = pre.eye_r_open
    /\ eng.eye_l_height_next \in {pre.eye_l_height_next, eng.eye_l_height_default}
    /\ eng.eye_r_height_next \in {pre.eye_r_height_next, eng.eye_r_height_default}

\* The last tick did not move the left eye's target or restamp the idle timer.
NoIdleMoveOnTick ==
    /\ eng.eye_l_x_next = pre.eye_l_x_next
    /\ eng.eye_l_y_next = pre.eye_l_y_next
    /\ eng.idle_animation_timer = pre.idle_animation_timer

\* C12: from a wink() that did not raise until set_auto_blinker(True) is called
\* the auto-blinker is off and no tick blinks, and until set_idle_mode(True) is
\* called idle mode is off and no tick moves the left eye's target.
C12_WinkStopsMacros ==
    /\ hist.wink_ab => ~eng.autoblinker
    /\ hist.wink_idle => ~eng.idle
    /\ (last.op = "tick" /\ hist.wink_ab) => NoBlinkOnTick
    /\ (last.op = "tick" /\ hist.wink_idle) => NoIdleMoveOnTick

\* A tick after a wink, at a time when the auto-blinker and idle mode, both
\* set to fire at once before the wink, would have been due.
C12_Witness ==
    /\ last.op = "tick"
    /\ hist.wink_ab /\ hist.wink_idle
    /\ eng.blink_interval = 0 /\ eng.idle_interval = 0
    /\ now - eng.blink_timer >= 0
    /\ now - eng.idle_animation_timer >= 0

----------------------------------------------------------------------------
(* SpecSize: resizing, closing, blinking and curious mode under ticks      *)

SizeWidthArgs == {<<Some(1), Some(60)>>}
SizeHeightArgs == {<<Some(1), Some(60)>>, <<Some(60), None>>}
SizeRadiusArgs == {<<Some(30), Some(1)>>}
SizeCloseArgs == {<<None, None>>, <<Some(ON), None>>}
SizeOpenArgs == {<<None, None>>}
SizeBlinkArgs == {<<None, None>>, <<None, Some(ON)>>}

InitSize == InitWith(NewEngine(320, 240), "run")

NextSize ==
    \/ Counted /\ EyesWidthCall(SizeWidthArgs)
    \/ Counted /\ EyesHeightCall(SizeHeightArgs)
    \/ Counted /\ EyesRadiusCall(SizeRadiusArgs)
    \/ Counted /\ CloseCall(SizeCloseArgs)
    \/ Counted /\ OpenCall(SizeOpenArgs)
    \/ Counted /\ BlinkCall(SizeBlinkArgs)
    \/ Counted /\ CuriousCall(BOOLEAN)
    \/ Counted /\ PositionCall({W})
    \/ TickQuiet

SpecSize == InitSize /\ [][NextSize]_vars

\* C2 as stated: for both eyes 0 <= height_current, 0 <= width_current and
\* border_radius_current <= min(width_current, height_current) / 2.
C2_Original ==
    /\ 0 <= eng.eye_l_height_current /\ 0 <= eng.eye_r_height_current
    /\ 0 <= eng.eye_l_width_current /\ 0 <= eng.eye_r_width_current
    /\ 2 * eng.eye_l_border_radius_current
          <= Min2(eng.eye_l_width_current, eng.eye_l_height_current)
    /\ 2 * eng.eye_r_border_radius_current
          <= Min2(eng.eye_r_width_current, eng.eye_r_height_current)

\* C2 as amended: for both eyes 0 <= height_current and 0 <= width_current, and
\* the radius each eye is drawn with (border_radius_current as draw_rounded_rect
\* clamps it) is at most min(width_current, height_current) / 2; the field
\* border_radius_current itself is not bounded by the eye's size.
C2_SizesAndDrawnRadius ==
    /\ 0 <= eng.eye_l_height_current /\ 0 <= eng.eye_r_height_current
    /\ 0 <= eng.eye_l_width_current /\ 0 <= eng.eye_r_width_current
    /\ 2 * drawn_radius_l(eng)
          <= Min2(eng.eye_l_width_current, eng.eye_l_height_current)
    /\ 2 * drawn_radius_r(eng)
          <= Min2(eng.eye_r_width_current, eng.eye_r_height_current)

\* A blink has driven the open left eye down to height 1 while its radius
\* field is still 8.
C2_Witness ==
    /\ last.op = "tick"
    /\ eng.eye_l_open
    /\ pre.eye_l_height_current > 1
    /\ eng.eye_l_height_current = 1
    /\ eng.eye_l_border_radius_current = 8
    /\ drawn_radius_l(eng) = 0

----------------------------------------------------------------------------
(* SpecTrack: the right eye's target under position, size and idle changes *)

TrackHorizon == 2000    \* ms of clock the tracking specification covers
TrackDeltas == {500}
TrackIdleArgs == {<<TRUE, Some(0), Some(1)>>, <<FALSE, None, None>>}

InitTrack == InitWith(NewEngine(320, 240), "run")

NextTrack ==
    \/ Counted /\ PositionCall({E, W, 0})
    \/ Counted /\ EyesWidthCall({<<Some(60), Some(20)>>})
    \/ Counted /\ EyesSpacingCall({30})
    \/ Counted /\ IdleModeCall(TrackIdleArgs)
    \/ Counted /\ CyclopsCall({TRUE})
    \/ TickTimed(TrackDeltas, TrackHorizon)

SpecTrack == InitTrack /\ [][NextTrack]_vars

\* eye_r_x_next is the left eye's target plus its current width and the spacing.
RightTargetTracks(e) ==
    e.eye_r_x_next = e.eye_l_x_next + e.eye_l_width_current + e.space_between_current

\* C3 as stated: in every state a tick can start from, eye_r_x_next equals
\* eye_l_x_next + eye_l_width_current + space_between_current.
C3_Original == RightTargetTracks(eng)

\* C3 as amended: eye_r_x_next equals eye_l_x_next + eye_l_width_current +
\* space_between_current whenever eye_l_x_next still has the value it had when
\* eye_r_x_next was last assigned (by the constructor or by a tick), that is,
\* at the end of a tick on which idle did not move the target and until the
\* next position assignment; resizing, spacing and cyclops do not break it.
C3_RightTargetTracks ==
    eng.eye_l_x_next = hist.rxn_for => RightTargetTracks(eng)

\* After a tick in cyclops mode, with the left eye moved away from its default
\* target and its width in transition, the right target tracks the left one.
C3_Witness ==
    /\ last.op = "tick"
    /\ eng.cyclops
    /\ eng.eye_l_x_next = hist.rxn_for
    /\ eng.eye_l_x_next # eng.eye_l_x_default
    /\ eng.eye_l_width_current # eng.eye_l_width_next
    /\ eng.eye_l_width_current # pre.eye_l_width_current
    /\ RightTargetTracks(eng)

----------------------------------------------------------------------------
(* SpecBlink: a blink of both eyes after some setup, then ticks only        *)

BlinkHeightArgs == {<<Some(1), Some(2)>>, <<Some(60), None>>}
BlinkCloseArgs == {<<None, None>>, <<Some(ON), None>>}

\* A tick changes nothing any more.
Settled == Quiet(eng) /\ draw_eyes(eng, now, NoDraws) = eng

\* Enough ticks have run since the final call of the scenario: SettleTicks or
\* any larger number of them.
EnoughTicks == hist.after >= SettleTicks

FinalBlink ==
    /\ phase = "setup"
    /\ Call(blink(eng, None, None), "blink", <<None, None>>, FALSE)
    /\ phase' = "blinked"
    /\ UNCHANGED hist

InitBlink == InitWith(NewEngine(320, 240), "setup")

NextBlink ==
    \/ Setup /\ EyesHeightCall(BlinkHeightArgs)
    \/ Setup /\ CloseCall(BlinkCloseArgs)
    \/ FinalBlink
    \/ TickQuiet /\ phase \in {"setup", "blinked"}

SpecBlink == InitBlink /\ [][NextBlink]_vars

\* Both eyes are back at their default height.
RestoredExactly ==
    /\ eng.eye_l_height_current = eng.eye_l_height_default
    /\ eng.eye_r_height_current = eng.eye_r_height_default

\* The height an eye reopens to: one short of a default of 2 or more.
ReopenedHeight(d) == IF d >= 2 THEN d - 1 ELSE 1

\* Both eyes are open again as far as the floor halving takes them.
RestoredOneShort ==
    /\ eng.eye_l_height_current = ReopenedHeight(eng.eye_l_height_default)
    /\ eng.eye_r_height_current = ReopenedHeight(eng.eye_r_height_default)

\* C1 as stated: once the ticks after blink() change nothing any more,
\* height_current of each eye is exactly height_default.
C1_Original == (phase = "blinked" /\ Settled) => RestoredExactly

\* C1 as amended: with auto-blink, idle and curious off and no later mutator
\* call, blink() of both eyes followed by enough ticks (16 or any larger
\* number) brings height_current of each eye to height_default - 1 (to 1 for a
\* default height of 1) and keeps it there: the eye closes to 1, reopens, and
\* the floor halving stops one pixel short of height_default.
C1_BlinkReopensOneShort ==
    (phase = "blinked" /\ EnoughTicks) => (Settled /\ RestoredOneShort)

\* Both eyes have reopened after the blink to 35 of their default 36 and a tick
\* changes nothing any more.
C1_Witness ==
    /\ phase = "blinked" /\ Settled /\ EnoughTicks
    /\ last.op = "tick"
    /\ eng.eye_l_open /\ eng.eye_r_open
    /\ eng.eye_l_height_default = 36 /\ eng.eye_l_height_current = 35
    /\ eng.eye_r_height_default = 36 /\ eng.eye_r_height_current = 35

----------------------------------------------------------------------------
(* SpecPos: a final set_position after some setup, then ticks only          *)

Screens == {<<320, 240>>, <<100, 100>>}
PosSetupDirs == {N, E, S, W}
PosFinalDirs == {SE, N, W}

FinalPosition ==
    \E d \in PosFinalDirs :
        LET e2 == set_position(eng, d)
        IN  /\ phase = "setup"
            /\ Call(e2, "set_position", <<d>>, FALSE)
            /\ phase' = "final"
            /\ hist' = [hist EXCEPT !.below_x = eng.eye_l_x < e2.eye_l_x_next,
                                    !.below_y = eng.eye_l_y < e2.eye_l_y_next]

InitPos == \E s \in Screens : InitWith(NewEngine(s[1], s[2]), "setup")

NextPos ==
    \/ Setup /\ PositionCall(PosSetupDirs)
    \/ Setup /\ BlinkCall({<<None, None>>})
    \/ FinalPosition
    \/ TickQuiet /\ phase \in {"setup", "final"}

SpecPos == InitPos /\ [][NextPos]_vars


\* The final set_position(d) was made and the default-size eyes are where the
\* property puts them.
AtFinal(d) == phase = "final" /\ eng.position = d

\* The target the final set_position assigned is the one the constraints give.
TargetIs(x, y) == eng.eye_l_x_next = x /\ eng.eye_l_y_next = y

\* eye_l_x stops at its target when it started at or right of it, and one
\* pixel short of it when it started left of it.
XSettledAt(x) == eng.eye_l_x = IF hist.below_x THEN x - 1 ELSE x

C6_ConvergesW ==
    (AtFinal(W) /\ eng.screen_width = 100 /\ eng.screen_height = 100
        /\ hist.setup = 0 /\ EnoughTicks) =>
        /\ Settled
        /\ TargetIs(0, get_screen_constraint_y(eng) \div 2)
        /\ get_screen_constraint_y(eng) = 64
        /\ eng.eye_l_x = 0
        /\ eng.eye_l_y = 32

\* On the 100x100 screen the eye, moved west while it was still opening (so the
\* re-centering pushed y off its target), has settled at (0, 32).
C6_Witness ==
    /\ AtFinal(W) /\ Settled /\ EnoughTicks
    /\ last.op = "tick"
    /\ eng.screen_width = 100 /\ eng.screen_height = 100
    /\ hist.setup = 0
    /\ eng.space_between_current = 10 /\ eng.eye_l_width_current = 36
    /\ eng.eye_l_x = 0 /\ eng.eye_l_y = 32
    /\ eng.eye_l_height_current = 35

----------------------------------------------------------------------------
(* SpecClose: close() after some setup, then ticks and other mutators       *)

CloseFinalArgs == {<<None, None>>, <<Some(ON), None>>, <<None, Some(OFF)>>}
CloseHeightArgs == {<<Some(60), None>>, <<None, Some(20)>>}
CloseOpenArgs == {<<None, None>>, <<Some(ON), None>>}

\* The eyes close(left, right) targets.
ClosesLeft(a) == ~IsNone(a[1]) \/ IsNone(a[2])
ClosesRight(a) == ~IsNone(a[2]) \/ IsNone(a[1])

FinalClose ==
    \E a \in CloseFinalArgs :
        /\ phase = "setup"
        /\ Call(close(eng, a[1], a[2]), "close", a, FALSE)
        /\ phase' = "closed"
        /\ hist' = [hist EXCEPT !.closed_l = ClosesLeft(a), !.kept_l = ClosesLeft(a),
                                !.closed_r = ClosesRight(a), !.kept_r = ClosesRight(a)]

\* eyes_height after the close.
ResizeClosed ==
    \E a \in CloseHeightArgs :
        /\ phase = "closed"
        /\ hist.calls < MaxAfterClose
        /\ Call(eyes_height(eng, a[1], a[2]), "eyes_height", a, FALSE)
        /\ hist' = [hist EXCEPT !.calls = @ + 1,
                                !.kept_l = @ /\ IsNone(a[1]),
                                !.kept_r = @ /\ IsNone(a[2])]
        /\ UNCHANGED phase

\* Another mutator call after the close.
OtherClosed ==
    /\ phase = "closed"
    /\ hist.calls < MaxAfterClose
    /\ hist' = [hist EXCEPT !.calls = @ + 1]
    /\ UNCHANGED phase

\* open() after the close; only ticks follow.
OpenClosed ==
    \E a \in CloseOpenArgs :
        /\ phase = "closed"
        /\ Call(open(eng, a[1], a[2]), "open", a, FALSE)
        /\ phase' = "opened"
        /\ UNCHANGED hist

InitClose == InitWith(NewEngine(320, 240), "setup")

NextClose ==
    \/ Setup /\ BlinkCall({<<None, None>>})
    \/ FinalClose
    \/ ResizeClosed
    \/ OtherClosed /\ EyesWidthCall({<<Some(60), Some(20)>>})
    \/ OtherClosed /\ PositionCall({N})
    \/ OtherClosed /\ MoodCall({TIRED})
    \/ OpenClosed
    \/ TickQuiet

SpecClose == InitClose /\ [][NextClose]_vars

\* The eye stays shut: target height 1, and height 1 once enough ticks have
\* run and from any tick that found it at 1.
ShutLeft ==
    /\ eng.eye_l_height_next = 1
    /\ EnoughTicks => eng.eye_l_height_current = 1
    /\ (last.op = "tick" /\ pre.eye_l_height_current = 1) => eng.eye_l_height_current = 1

ShutRight ==
    /\ eng.eye_r_height_next = 1
    /\ EnoughTicks => eng.eye_r_height_current = 1
    /\ (last.op = "tick" /\ pre.eye_r_height_current = 1) => eng.eye_r_height_current = 1

\* After open(), a tick that finds an opened eye shut (height 1, target 1), as
\* the first tick after open() on a closed eye does, sets the eye's height_next
\* to height_default.
ReopensNextTick ==
    (phase = "opened" /\ last.op = "tick") =>
        /\ (pre.eye_l_open /\ pre.eye_l_height_current = 1 /\ pre.eye_l_height_next = 1)
              => eng.eye_l_height_next = eng.eye_l_height_default
        /\ (pre.eye_r_open /\ pre.eye_r_height_current = 1 /\ pre.eye_r_height_next = 1)
              => eng.eye_r_height_next = eng.eye_r_height_default

----------------------------------------------------------------------------
(* SpecMut: every public mutator, with ticks between the calls             *)

MutWidthArgs == {<<Some(60), None>>, <<None, Some(20)>>}
MutHeightArgs == {<<Some(60), Some(20)>>}
MutRadiusArgs == {<<Some(20), None>>}
MutSpacingArgs == {30}
MutMoodArgs == {TIRED, HAPPY}
MutPositionArgs == {N, SE, 0}
MutSideArgs == {<<None, None>>, <<Some(ON), None>>}
MutMacroArgs == {<<ON, Some(0), Some(0)>>}
MutDeltas == {100}

\* The call just made repeats the operation before it when name and
\* arguments are the same; any other call counts against the budget.
MutCounted ==
    LET again == last'.op = last.op /\ last'.args = last.args
    IN  /\ again \/ hist.calls < MaxMutCalls
        /\ hist' = [hist EXCEPT !.calls = IF again THEN @ ELSE @ + 1,
                                !.twice = again]
        /\ UNCHANGED phase

InitMut == InitWith(NewEngine(320, 240), "free")

NextMut ==
    \/ EyesWidthCall(MutWidthArgs) /\ MutCounted
    \/ EyesHeightCall(MutHeightArgs) /\ MutCounted
    \/ EyesRadiusCall(MutRadiusArgs) /\ MutCounted
    \/ EyesSpacingCall(MutSpacingArgs) /\ MutCounted
    \/ MoodCall(MutMoodArgs) /\ MutCounted
    \/ CuriousCall({ON}) /\ MutCounted
    \/ CyclopsCall({ON}) /\ MutCounted
    \/ PositionCall(MutPositionArgs) /\ MutCounted
    \/ CloseCall({<<None, None>>}) /\ MutCounted
    \/ OpenCall({<<None, None>>}) /\ MutCounted
    \/ BlinkCall(MutSideArgs) /\ MutCounted
    \/ WinkCall(MutSideArgs) /\ MutCounted
    \/ ConfuseCall /\ MutCounted
    \/ LaughCall /\ MutCounted
    \/ AutoBlinkerCall(MutMacroArgs) /\ MutCounted
    \/ IdleModeCall(MutMacroArgs) /\ MutCounted
    \/ TickTimed(MutDeltas, MutHorizon)

SpecMut == InitMut /\ [][NextMut]_vars

\* The current values of the engine: what the next frame is painted from.
Currents(e) ==
    <<e.eye_l_width_current, e.eye_r_width_current,
      e.eye_l_height_current, e.eye_r_height_current,
      e.eye_l_border_radius_current, e.eye_r_border_radius_current,
      e.space_between_current,
      e.eye_l_x, e.eye_l_y, e.eye_r_x, e.eye_r_y,
      e.eyelids_tired_height, e.eyelids_angry_height,
      e.eyelids_happy_bottom_offset>>

\* C14: a step that is a mutator call (eyes_width, eyes_height, eyes_radius,
\* eyes_spacing, mood, curious, cyclops, position, close, open, blink, wink,
\* confuse, laugh, set_auto_blinker, set_idle_mode) leaves every current
\* value (sizes, radii, spacing, eye x/y, eyelid heights) and the frame buffer
\* as they were; only ticks change them.
C14_MutatorsKeepCurrents ==
    [][ last'.op # "tick" =>
            /\ Currents(eng') = Currents(eng)
            /\ buffer' = buffer ]_vars

\* After a tick has painted a frame, eyes_width(60) was called: the target
\* is 60, the current width and the painted width are not.
C14_Witness ==
    /\ last.op = "eyes_width" /\ last.args = <<Some(60), None>>
    /\ buffer # BlankFrame
    /\ eng.eye_l_width_next = 60
    /\ eng.eye_l_width_current # 60
    /\ buffer.left[3] = eng.eye_l_width_current

\* C15: a mutator call that repeats the call just before it, with the same
\* arguments and no tick in between, leaves the engine exactly as the first
\* call left it.
C15_MutatorsIdempotent ==
    hist.twice => eng = pre

\* eyes_spacing(30) called twice in a row after a tick, the gap still on
\* its way to 30.
C15_Witness ==
    /\ hist.twice /\ last.op = "eyes_spacing"
    /\ buffer # BlankFrame
    /\ eng.space_between_next = 30
    /\ eng.space_between_current # 30

----------------------------------------------------------------------------
(* SpecDir: the position setter in every direction, on screens wider and   *)
(* narrower than the eyes, while sizes are in transition                   *)

DirScreens == {<<320, 240>>, <<117, 31>>, <<81, 30>>}
Directions == {N, NE, E, SE, S, SW, W, NW}
OtherDirections == {0, 9}

\* A position assignment, after the size calls and ticks of the setup.
DirPosition ==
    /\ phase = "setup"
    /\ PositionCall(Directions \cup OtherDirections)
    /\ phase' = "placed"
    /\ UNCHANGED hist

InitDir == \E s \in DirScreens : InitWith(NewEngine(s[1], s[2]), "setup")

NextDir ==
    \/ Setup /\ EyesWidthCall({<<Some(60), Some(21)>>})
    \/ Setup /\ EyesSpacingCall({31})
    \/ Setup /\ EyesHeightCall({<<Some(61), None>>})
    \/ DirPosition
    \/ TickQuiet /\ phase = "setup"

SpecDir == InitDir /\ [][NextDir]_vars

\* cx and cy of the position setter, from the engine it was called on.
ConstraintX(e) ==
    e.screen_width - e.eye_l_width_current - e.space_between_current
        - e.eye_r_width_current

ConstraintY(e) == e.screen_height - e.eye_l_height_default

\* Floor halving: n less its parity (0 or 1, also for negative n) is even,
\* and half of that is the largest h with 2h <= n.
HalfFloor(n) == (n - (n % 2)) \div 2

\* C16: set_position(dir) sets the left eye's (x_next, y_next) to N (cx/2, 0),
\* NE (cx, 0), E (cx, cy/2), SE (cx, cy), S (cx/2, cy), SW (0, cy), W (0, cy/2),
\* NW (0, 0) and (cx/2, cy/2) for any other value, where cx = screen_width -
\* left eye width - spacing - right eye width (the current ones), cy =
\* screen_height - left eye default height, and halving rounds down.
C16_PositionTable ==
    last.op = "set_position" =>
        LET d  == last.args[1]
            cx == ConstraintX(pre)
            cy == ConstraintY(pre)
            to == <<eng.eye_l_x_next, eng.eye_l_y_next>>
        IN  /\ d = N  => to = <<HalfFloor(cx), 0>>
            /\ d = NE => to = <<cx, 0>>
            /\ d = E  => to = <<cx, HalfFloor(cy)>>
            /\ d = SE => to = <<cx, cy>>
            /\ d = S  => to = <<HalfFloor(cx), cy>>
            /\ d = SW => to = <<0, cy>>
            /\ d = W  => to = <<0, HalfFloor(cy)>>
            /\ d = NW => to = <<0, 0>>
            /\ d \notin Directions => to = <<HalfFloor(cx), HalfFloor(cy)>>

\* set_position(N) on the 81 x 30 screen while the left eye is between two
\* widths: cx is negative and odd, and its half is rounded down.
C16_Witness ==
    /\ last.op = "set_position" /\ last.args = <<N>>
    /\ pre.eye_l_width_current # pre.eye_l_width_next
    /\ pre.eye_l_width_current # EyeWidthDefault
    /\ ConstraintX(pre) < 0
    /\ ConstraintX(pre) % 2 = 1
    /\ 2 * eng.eye_l_x_next = ConstraintX(pre) - 1

----------------------------------------------------------------------------
(* SpecSeq: one Sequence of the engine, its steps added, started, updated  *)
(* and reset in any order while the clock advances                         *)

SeqTimings == {0, 100, 200}
Callbacks == {"laugh", "close"}
SeqDeltas == {0, 100}

\* An operation on the sequence, at clock reading t, that invokes the
\* callbacks of the steps in log and leaves the sequence as q2 and the
\* engine as e2.
SeqOp(q2, e2, t, name, args, log) ==
    /\ seq' = q2
    /\ eng' = e2
    /\ pre' = eng
    /\ now' = t
    /\ last' = Op(name, args, FALSE)
    /\ hist' = [hist EXCEPT
            !.seq0  = seq,
            !.log   = log,
            !.fires = IF name = "reset" THEN [i \in DOMAIN q2.steps |-> 0]
                      ELSE [i \in DOMAIN q2.steps |->
                              (IF i \in DOMAIN @ THEN @[i] ELSE 0)
                              + (IF \E k \in DOMAIN log : log[k] = i THEN 1 ELSE 0)],
            !.total = [i \in DOMAIN q2.steps |->
                          Min2(2, (IF i \in DOMAIN @ THEN @[i] ELSE 0)
                              + (IF \E k \in DOMAIN log : log[k] = i THEN 1 ELSE 0))],
            !.was_reset = @ \/ name = "reset"]
    /\ UNCHANGED <<phase, buffer>>

\* seq.step(ms_timing, callback)
SeqStep ==
    \E ms \in SeqTimings, cb \in Callbacks :
        /\ Len(seq.steps) < MaxSteps
        /\ SeqOp(Sequence_step(seq, ms, cb), eng, now, "step", <<ms, cb>>, <<>>)

\* seq.start(), d ms after the last clock reading
SeqStart ==
    \E d \in SeqDeltas :
        /\ now + d <= ClockStart + SeqHorizon
        /\ SeqOp(Sequence_start(seq, now + d), eng, now + d, "start", <<>>, <<>>)

\* seq.reset()
SeqReset == SeqOp(Sequence_reset(seq), eng, now, "reset", <<>>, <<>>)

\* sequences.update(), d ms after the last clock reading
SeqUpdate ==
    \E d \in SeqDeltas :
        /\ now + d <= ClockStart + SeqHorizon
        /\ LET r == Sequence_update(seq, now + d, eng)
           IN  SeqOp([seq EXCEPT !.steps = r.steps], r.eng, now + d,
                     "update", <<>>, r.log)

InitSeq == InitWith(NewEngine(320, 240), "free")

NextSeq ==
    \/ SeqStep
    \/ SeqStart
    \/ SeqReset
    \/ SeqUpdate

SpecSeq == InitSeq /\ [][NextSeq]_vars

\* Step i of the sequence the last operation found was due at the clock
\* reading of that operation.
Elapsed(i) == now - Val(hist.seq0.start) >= hist.seq0.steps[i].ms_timing

Updated == last.op = "update"

\* C17: since the last reset() no step's callback was invoked more than
\* once; an update invokes a callback only if now - start >= the step's
\* offset; an update of a sequence that is not started invokes nothing.
C17_AtMostOnceNeverEarly ==
    /\ \A i \in DOMAIN hist.fires : hist.fires[i] <= 1
    /\ Updated =>
          /\ IsNone(hist.seq0.start) => hist.log = <<>> /\ eng = pre
          /\ \A k \in DOMAIN hist.log : Elapsed(hist.log[k])

\* An update invoked nothing although the sequence is started and has a
\* step that fired in an earlier update and a step that is not due yet.
C17_Witness ==
    /\ Updated /\ ~IsNone(hist.seq0.start)
    /\ hist.log = <<>>
    /\ \E i, j \in DOMAIN seq.steps :
          /\ hist.fires[i] = 1 /\ seq.steps[i].done
          /\ hist.fires[j] = 0 /\ ~Elapsed(j)

\* The steps an update of a started sequence has to fire: not fired yet, due.
Due == {i \in DOMAIN hist.seq0.steps : ~hist.seq0.steps[i].done /\ Elapsed(i)}

\* C18: one update of a started sequence invokes the callback of every step
\* that was not fired and is due, each once, in insertion order, whatever
\* the offsets.
C18_AllDueInInsertionOrder ==
    (Updated /\ ~IsNone(hist.seq0.start)) =>
        /\ {hist.log[k] : k \in DOMAIN hist.log} = Due
        /\ Len(hist.log) = Cardinality(Due)
        /\ \A k \in DOMAIN hist.log :
              k > 1 => hist.log[k - 1] < hist.log[k]
        /\ \A i \in Due : seq.steps[i].done

\* One update fired step 1 and then step 2, step 2 having the smaller offset.
C18_Witness ==
    /\ Updated
    /\ hist.log = <<1, 2>>
    /\ seq.steps[2].ms_timing < seq.steps[1].ms_timing
    /\ eng.laugh /\ ~eng.eye_l_open

\* C19: done is true exactly when the sequence is not started or the
\* callback of every step has been invoked since the last reset().
C19_DoneIffIdleOrAllFired ==
    Sequence_done(seq) <=>
        (IsNone(seq.start) \/ \A i \in DOMAIN seq.steps : hist.fires[i] >= 1)

\* A started sequence with one step fired and one not: it is not done.
C19_Witness ==
    /\ ~IsNone(seq.start)
    /\ ~Sequence_done(seq)
    /\ \E i, j \in DOMAIN seq.steps : hist.fires[i] = 1 /\ hist.fires[j] = 0

\* C20: reset() clears the start time and every step's fired flag; from then
\* on an update invokes nothing until start() is called; after that start()
\* an update leaves every step whose offset has elapsed since the new start
\* time fired exactly once since the reset, and fires no other step.
C20_ResetRearms ==
    /\ last.op = "reset" =>
          /\ IsNone(seq.start)
          /\ \A i \in DOMAIN seq.steps : ~seq.steps[i].done
    /\ (hist.was_reset /\ IsNone(seq.start)) =>
          \A i \in DOMAIN seq.steps : hist.fires[i] = 0
    /\ (hist.was_reset /\ Updated /\ ~IsNone(seq.start)) =>
          \A i \in DOMAIN seq.steps :
              /\ Elapsed(i) => hist.fires[i] = 1
              /\ (\E k \in DOMAIN hist.log : hist.log[k] = i) => Elapsed(i)

\* A step that fired before a reset() has fired a second time, in an update
\* after the start() that followed the reset.
C20_Witness ==
    /\ hist.was_reset /\ Updated /\ ~IsNone(seq.start)
    /\ \E i \in DOMAIN seq.steps :
          /\ hist.total[i] = 2
          /\ hist.fires[i] = 1
          /\ hist.log = <<i>>
          /\ seq.steps[i].ms_timing > 0

----------------------------------------------------------------------------
(* SpecUpd: update(), the frame-rate throttle and set_framerate            *)

\* Python's a // b for b # 0: the floor of the quotient, whatever the signs.
PyFloorDiv(a, b) == IF b > 0 THEN a \div b ELSE (-a) \div (-b)

\* set_framerate(fps): 1000 // fps raises ZeroDivisionError for fps = 0.
set_framerate(e, fps) ==
    IF fps = 0
    THEN [raised |-> TRUE, eng |-> e]
    ELSE [raised |-> FALSE,
          eng |-> [e EXCEPT !.frame_interval = PyFloorDiv(1000, fps)]]

\* An update that redraws on every call.
update_unthrottled(e, q, t, lag, rnd) ==
    LET sq == Sequence_update(q, t, e)
    IN  [ steps  |-> sq.steps,
          log    |-> sq.log,
          cb_eng |-> sq.eng,
          redrew |-> TRUE,
          eng    |-> [draw_eyes(sq.eng, t + lag, rnd) EXCEPT !.fps_timer = t] ]

\* FastRoboEyes.update: sequences.update() and update() read the clock as t,
\* draw_eyes reads it lag ms later.
update(e, q, t, lag, rnd) ==
    LET sq == Sequence_update(q, t, e)
    IN  IF t - sq.eng.fps_timer >= sq.eng.frame_interval
        THEN [ steps  |-> sq.steps,
               log    |-> sq.log,
               cb_eng |-> sq.eng,
               redrew |-> TRUE,
               eng    |-> [draw_eyes(sq.eng, t + lag, rnd) EXCEPT !.fps_timer = t] ]
        ELSE [ steps  |-> sq.steps,
               log    |-> sq.log,
               cb_eng |-> sq.eng,
               redrew |-> FALSE,
               eng    |-> sq.eng ]

UpdDeltas == {5, 16}
DrawLags == {1}
UpdRates == {30, 0, -60}
UpdTimings == {20}

SetFramerateCall(args) ==
    \E fps \in args :
        LET r == set_framerate(eng, fps)
        IN  Call(r.eng, "set_framerate", <<fps>>, r.raised)

HorizFlickerCall(args) ==
    \E a \in args :
        Call(horiz_flicker(eng, a[1], a[2]), "horiz_flicker", a, FALSE)

\* seq.step(ms_timing, callback) and seq.start() while the driver sets up
UpdSeqCall ==
    /\ \/ \E ms \in UpdTimings, cb \in Callbacks :
             /\ Len(seq.steps) < MaxSteps
             /\ seq' = Sequence_step(seq, ms, cb)
             /\ last' = Op("step", <<ms, cb>>, FALSE)
       \/ /\ IsNone(seq.start)
          /\ seq' = Sequence_start(seq, now)
          /\ last' = Op("start", <<>>, FALSE)
    /\ pre' = eng
    /\ UNCHANGED <<eng, now, buffer>>

\* eyes.update(), d ms after the last clock reading
UpdateCall ==
    \E d \in UpdDeltas, lag \in DrawLags :
        LET t  == now + d
            sq == Sequence_update(seq, t, eng)
            due == t - sq.eng.fps_timer >= sq.eng.frame_interval
        IN  /\ t + lag <= ClockStart + UpdHorizon
            /\ \E rnd \in (IF due THEN Draws(sq.eng, t + lag) ELSE {NoDraws}) :
                 LET u == update(eng, seq, t, lag, rnd)
                 IN  /\ eng' = u.eng
                     /\ seq' = [seq EXCEPT !.steps = u.steps]
                     /\ buffer' = IF u.redrew THEN Frame(u.eng) ELSE buffer
                     /\ now' = IF u.redrew THEN t + lag ELSE t
                     /\ hist' = [hist EXCEPT
                            !.redrew = u.redrew,
                            !.log = u.log,
                            !.cb_eng = u.cb_eng,
                            !.since = IF u.redrew /\ ~IsNone(hist.drawn_at)
                                      THEN Some(t - Val(hist.drawn_at)) ELSE None,
                            !.drawn_at = IF u.redrew THEN Some(t) ELSE @]
            /\ pre' = eng
            /\ last' = Op("update", <<d, lag>>, FALSE)
            /\ UNCHANGED phase

InitUpd == InitWith(NewEngine(320, 240), "setup")

NextUpd ==
    \/ Setup /\ MoodCall({HAPPY})
    \/ Setup /\ EyesWidthCall({<<Some(60), None>>})
    \/ Setup /\ HorizFlickerCall({<<ON, Some(2)>>})
    \/ Setup /\ SetFramerateCall(UpdRates)
    \/ Setup /\ UpdSeqCall
    \/ UpdateCall

SpecUpd == InitUpd /\ [][NextUpd]_vars

\* C21: an update() made before frame_interval ms have passed since the
\* last redraw leaves the buffer alone and leaves the engine as the due
\* sequence callbacks left it (unchanged when none was due); a redraw comes
\* frame_interval ms or more after the redraw before it.
C21_ThrottledUpdateSkipsRedraw ==
    [][ last'.op = "update" =>
          /\ ~hist'.redrew =>
                /\ buffer' = buffer
                /\ eng' = hist'.cb_eng
                /\ hist'.log = <<>> => eng' = eng
          /\ (~IsNone(hist.drawn_at)
                /\ now' - eng.fps_timer < eng'.frame_interval) => ~hist'.redrew
          /\ (hist'.redrew /\ ~IsNone(hist'.since)) =>
                Val(hist'.since) >= eng'.frame_interval ]_vars

\* A throttled update() a few ms after a redraw: the eye is still on its way
\* to width 60, a flicker is on, and nothing has moved.
C21_Witness ==
    /\ last.op = "update" /\ ~hist.redrew
    /\ ~IsNone(hist.drawn_at) /\ now - Val(hist.drawn_at) < eng.frame_interval
    /\ eng.frame_interval = 16
    /\ eng.h_flicker
    /\ eng.eye_l_width_next = 60 /\ eng.eye_l_width_current # 60
    /\ eng = pre /\ buffer = Frame(eng)

\* C22: set_framerate with fps <= 0 ends in an error, and no engine holds a
\* negative frame_interval.
C22_NonPositiveRateRejected ==
    /\ (last.op = "set_framerate" /\ last.args[1] <= 0) => last.raised
    /\ eng.frame_interval >= 0

----------------------------------------------------------------------------
(* SpecErr: ticks of engines whose eyes are given any integer size, with   *)
(* idle mode on or off                                                     *)

\* The macro section of draw_eyes up to the idle macro, at clock reading t.
before_idle(e, t, blink_k) ==
    confuse_macro(laugh_macro(auto_blink(smooth_geometry(e), t, blink_k), t), t)

\* random.randint(0, n) raises ValueError for n < 0; the idle macro draws
\* its x target from 0..constraint_x and its y target from 0..constraint_y.
idle_pick_raises(e, t) ==
    LET m == before_idle(e, t, 0)
    IN  /\ idle_due(m, t)
        /\ \/ get_screen_constraint_x(m) < 0
           \/ get_screen_constraint_y(m) < 0

\* The engine as the ValueError leaves it: smoothed, the macros before idle
\* applied, and eye_l_x_next assigned if it was the y pick that failed.
draw_eyes_raising(e, t, blink_k, x) ==
    LET m == before_idle(e, t, blink_k)
    IN  IF get_screen_constraint_x(m) < 0 THEN m
        ELSE [m EXCEPT !.eye_l_x_next = x]

ErrWidthArgs == {<<Some(200), Some(200)>>, <<Some(0), Some(-5)>>}
ErrHeightArgs == {<<Some(300), None>>, <<Some(-3), Some(0)>>}
ErrRadiusArgs == {<<Some(-2), Some(50)>>}
ErrSpacingArgs == {-20, 400}
ErrDeltas == {100}

\* A draw_eyes call d ms after the last clock reading that ends in the
\* ValueError of the idle macro.
TickRaising ==
    \E d \in ErrDeltas :
        LET t == now + d
            g == smooth_geometry(eng)
        IN  /\ t <= ClockStart + ErrHorizon
            /\ idle_pick_raises(eng, t)
            /\ \E k \in (IF auto_blink_due(g, t)
                          THEN Picks(g.blink_interval_variation) ELSE {0}),
                  x \in (IF get_screen_constraint_x(before_idle(eng, t, 0)) < 0
                         THEN {0}
                         ELSE Picks(get_screen_constraint_x(before_idle(eng, t, 0)))) :
                 eng' = draw_eyes_raising(eng, t, k, x)
            /\ now' = t
            /\ pre' = eng
            /\ last' = Op("tick", <<>>, TRUE)
            /\ UNCHANGED <<hist, phase, buffer, seq>>

InitErr == InitWith(NewEngine(320, 240), "setup")

NextErr ==
    \/ Setup /\ EyesWidthCall(ErrWidthArgs)
    \/ Setup /\ EyesHeightCall(ErrHeightArgs)
    \/ Setup /\ EyesRadiusCall(ErrRadiusArgs)
    \/ Setup /\ EyesSpacingCall(ErrSpacingArgs)
    \/ Setup /\ IdleModeCall({<<ON, Some(0), Some(0)>>})
    \/ Setup /\ AutoBlinkerCall({<<ON, Some(0), Some(0)>>})
    \/ TickTimed(ErrDeltas, ErrHorizon)
    \/ TickRaising

SpecErr == InitErr /\ [][NextErr]_vars

\* C23: a tick never ends in an error, whatever integer widths, heights,
\* radii and spacing the mutators were given and whether auto-blink and idle
\* mode are on; the idle macro's random pick does not fail when
\* constraint_x or constraint_y is negative.
C23_TickNeverRaises ==
    last.op = "tick" => ~last.raised

----------------------------------------------------------------------------
(* The drawing methods, pixel by pixel.  A buffer write is the set of      *)
(* <<row, column>> pairs it assigns; sw and sh are screen_width and        *)
(* screen_height.                                                          *)

Max2(a, b) == IF a > b THEN a ELSE b

\* The indices a Python slice a:b selects from a sequence of length n.
PySlice(a, b, n) ==
    LET lo == IF a < 0 THEN Max2(a + n, 0) ELSE Min2(a, n)
        hi == IF b < 0 THEN Max2(b + n, 0) ELSE Min2(b, n)
    IN  lo .. (hi - 1)

\* self.buffer[y1:y2, x1:x2] = color
SliceWrite(sw, sh, y1, y2, x1, x2) == PySlice(y1, y2, sh) \X PySlice(x1, x2, sw)

\* An integer index k into a sequence of length n raises IndexError outside
\* -n .. n-1 and counts from the end when negative.
IndexRaises(k, n) == k < -n \/ k >= n
PyIndex(k, n) == IF k < 0 THEN k + n ELSE k

\* self.buffer[py, x_start:x_end] = color
RowWrite(sw, sh, py, x_start, x_end) ==
    [ px     |-> IF IndexRaises(py, sh) THEN {}
                 ELSE {PyIndex(py, sh)} \X PySlice(x_start, x_end, sw),
      raised |-> IndexRaises(py, sh) ]

\* int(np.sqrt(n)) for n >= 0
IntSqrt(n) == CHOOSE k \in 0..n : k * k <= n /\ n < (k + 1) * (k + 1)

\* int(p / q) for q > 0: truncation toward zero
TruncQuot(p, q) == IF p >= 0 THEN p \div q ELSE -((-p) \div q)

\* The rows written by several row writes, and whether one of them raised.
Rows(ws) ==
    [ px     |-> UNION {w.px : w \in ws},
      raised |-> \E w \in ws : w.raised ]

\* One scanline of _draw_circle_corner
corner_row(sw, sh, cx, cy, r, corner, dy) ==
    LET py     == cy + dy
        dx_max == IntSqrt(Max2(0, r * r - dy * dy))
        left   == corner \in {"tl", "bl"}
        x_start == IF left THEN Max2(0, cx - dx_max) ELSE Max2(0, cx)
        x_end   == IF left THEN Min2(sw, cx + 1) ELSE Min2(sw, cx + dx_max + 1)
    IN  IF py < 0 \/ py >= sh THEN [px |-> {}, raised |-> FALSE]
        ELSE IF x_end > x_start THEN RowWrite(sw, sh, py, x_start, x_end)
        ELSE [px |-> {}, raised |-> FALSE]

\* _draw_circle_corner: every scanline, whatever the quadrant.
draw_circle_corner(sw, sh, cx, cy, r, corner) ==
    Rows({corner_row(sw, sh, cx, cy, r, corner, dy) : dy \in (-r) .. r})

\* A guarded rectangular section of draw_rounded_rect
Section(sw, sh, y1, y2, x1, x2) ==
    IF x2 > x1 /\ y2 > y1 THEN SliceWrite(sw, sh, y1, y2, x1, x2) ELSE {}

\* A draw_rounded_rect that uses the radius it is given.
draw_rounded_rect_unclamped(sw, sh, x, y, w, h, r) ==
    IF r <= 0 \/ w <= 0 \/ h <= 0
    THEN [ px |-> Section(sw, sh, Max2(0, y), Min2(sh, y + h), Max2(0, x), Min2(sw, x + w)),
           raised |-> FALSE ]
    ELSE LET top == Section(sw, sh, Max2(0, y), Min2(sh, y + r),
                            Max2(0, x + r), Min2(sw, x + w - r))
             mid == Section(sw, sh, Max2(0, y + r), Min2(sh, y + h - r),
                            Max2(0, x), Min2(sw, x + w))
             bot == Section(sw, sh, Max2(0, y + h - r), Min2(sh, y + h),
                            Max2(0, x + r), Min2(sw, x + w - r))
             cs  == Rows({ draw_circle_corner(sw, sh, x + r, y + r, r, "tl"),
                           draw_circle_corner(sw, sh, x + w - r, y + r, r, "tr"),
                           draw_circle_corner(sw, sh, x + r, y + h - r, r, "bl"),
                           draw_circle_corner(sw, sh, x + w - r, y + h - r, r, "br") })
         IN  [ px |-> top \cup mid \cup bot \cup cs.px, raised |-> cs.raised ]

\* draw_rounded_rect(x, y, w, h, r, color): the pixels it assigns.
draw_rounded_rect(sw, sh, x, y, w, h, r0) ==
    LET r == Min3(r0, w \div 2, h \div 2)
    IN  IF r <= 0 \/ w <= 0 \/ h <= 0
        THEN [ px |-> Section(sw, sh, Max2(0, y), Min2(sh, y + h), Max2(0, x), Min2(sw, x + w)),
               raised |-> FALSE ]
        ELSE LET top == Section(sw, sh, Max2(0, y), Min2(sh, y + r),
                                Max2(0, x + r), Min2(sw, x + w - r))
                 mid == Section(sw, sh, Max2(0, y + r), Min2(sh, y + h - r),
                                Max2(0, x), Min2(sw, x + w))
                 bot == Section(sw, sh, Max2(0, y + h - r), Min2(sh, y + h),
                                Max2(0, x + r), Min2(sw, x + w - r))
                 cs  == Rows({ draw_circle_corner(sw, sh, x + r, y + r, r, "tl"),
                               draw_circle_corner(sw, sh, x + w - r, y + r, r, "tr"),
                               draw_circle_corner(sw, sh, x + r, y + h - r, r, "bl"),
                               draw_circle_corner(sw, sh, x + w - r, y + h - r, r, "br") })
             IN  [ px |-> top \cup mid \cup bot \cup cs.px, raised |-> cs.raised ]

\* int(c) for the float c = base + k * dx / (dy + 0.001), dy >= 0: the
\* quotient is taken exactly, k * dx * 1000 / (dy * 1000 + 1).
EdgeAt(base, k, dx, dy) ==
    TruncQuot(base * (dy * 1000 + 1) + k * dx * 1000, dy * 1000 + 1)

\* One scanline of a triangle helper, its two edges at curx1 and curx2
scanline(sw, sh, scanlineY, curx1, curx2) ==
    LET x_start == Max2(0, Min2(curx1, curx2))
        x_end   == Min2(sw, Max2(curx1, curx2) + 1)
    IN  IF 0 <= scanlineY /\ scanlineY < sh /\ x_start < x_end
        THEN RowWrite(sw, sh, scanlineY, x_start, x_end)
        ELSE [px |-> {}, raised |-> FALSE]

\* _fill_bottom_flat_triangle
fill_bottom_flat_triangle(sw, sh, x0, y0, x1, y1, x2, y2) ==
    IF y1 = y0 THEN [px |-> {}, raised |-> FALSE]
    ELSE Rows({ scanline(sw, sh, sy,
                         EdgeAt(x0, sy - y0, x1 - x0, y1 - y0),
                         EdgeAt(x0, sy - y0, x2 - x0, y2 - y0)) : sy \in y0 .. y1 })

\* _fill_top_flat_triangle
fill_top_flat_triangle(sw, sh, x0, y0, x1, y1, x2, y2) ==
    IF y2 = y0 THEN [px |-> {}, raised |-> FALSE]
    ELSE Rows({ scanline(sw, sh, sy,
                         EdgeAt(x2, y2 - sy, x0 - x2, y2 - y0),
                         EdgeAt(x2, y2 - sy, x1 - x2, y2 - y1)) : sy \in y0 .. y2 })

\* The vertices of fill_triangle after its three conditional swaps.
sorted_vertices(a, b, c) ==
    LET s1 == IF a[2] > b[2] THEN <<b, a, c>> ELSE <<a, b, c>>
        s2 == IF s1[1][2] > s1[3][2] THEN <<s1[3], s1[2], s1[1]>> ELSE s1
    IN  IF s2[2][2] > s2[3][2] THEN <<s2[1], s2[3], s2[2]>> ELSE s2

\* fill_triangle(x0, y0, x1, y1, x2, y2, color): the pixels it assigns.
fill_triangle(sw, sh, xa, ya, xb, yb, xc, yc) ==
    LET v  == sorted_vertices(<<xa, ya>>, <<xb, yb>>, <<xc, yc>>)
        x0 == v[1][1]
        y0 == v[1][2]
        x1 == v[2][1]
        y1 == v[2][2]
        x2 == v[3][1]
        y2 == v[3][2]
    IN  IF y1 = y2 THEN fill_bottom_flat_triangle(sw, sh, x0, y0, x1, y1, x2, y2)
        ELSE IF y0 = y1 THEN fill_top_flat_triangle(sw, sh, x0, y0, x1, y1, x2, y2)
        ELSE LET x3 == EdgeAt(x0, y1 - y0, x2 - x0, y2 - y0)
             IN  Rows({ fill_bottom_flat_triangle(sw, sh, x0, y0, x1, y1, x3, y1),
                        fill_top_flat_triangle(sw, sh, x1, y1, x3, y1, x2, y2) })

----------------------------------------------------------------------------
(* SpecDraw: one call of a drawing method on a cleared 7 x 6 buffer, with  *)
(* arguments on, across and off the screen                                 *)

DrawScreen == <<7, 6>>
DrawCoords == (-3) .. (DrawMax + 2)
DrawSizes == (-1) .. DrawMax
DrawRadii == (-1) .. 4
TriCoords == {-2, 0, 1, 3, DrawMax - 2, DrawMax + 1}
Corners == {"tl", "tr", "bl", "br"}

\* A drawing call on the cleared buffer; the buffer then holds the pixels
\* the call assigned.
Drawn(d, name, args) ==
    /\ phase' = "drawn"
    /\ buffer' = [cleared |-> TRUE, px |-> d.px]
    /\ last' = Op(name, args, d.raised)
    /\ pre' = eng
    /\ UNCHANGED <<eng, now, hist, seq>>

DrawRoundedRect ==
    /\ phase = "setup"
    /\ \E x \in DrawCoords, y \in DrawCoords, w \in DrawSizes, h \in DrawSizes,
         r \in DrawRadii :
        Drawn(draw_rounded_rect(eng.screen_width, eng.screen_height, x, y, w, h, r),
              "draw_rounded_rect", <<x, y, w, h, r>>)

DrawCircleCorner ==
    /\ phase = "setup"
    /\ \E cx \in DrawCoords, cy \in DrawCoords, r \in DrawRadii, c \in Corners :
        Drawn(draw_circle_corner(eng.screen_width, eng.screen_height, cx, cy, r, c),
              "_draw_circle_corner", <<cx, cy, r, c>>)

FillTriangle ==
    /\ phase = "setup"
    /\ \E x0 \in TriCoords, y0 \in TriCoords, x1 \in TriCoords, y1 \in TriCoords,
         x2 \in TriCoords, y2 \in TriCoords :
        Drawn(fill_triangle(eng.screen_width, eng.screen_height, x0, y0, x1, y1, x2, y2),
              "fill_triangle", <<x0, y0, x1, y1, x2, y2>>)

InitDraw == InitWith(NewEngine(DrawScreen[1], DrawScreen[2]), "setup")

NextDraw ==
    \/ DrawRoundedRect
    \/ DrawCircleCorner
    \/ FillTriangle

SpecDraw == InitDraw /\ [][NextDraw]_vars

DrawOps == {"draw_rounded_rect", "_draw_circle_corner", "fill_triangle"}

\* The shape of the last call has no pixel in the buffer: the rectangle
\* x .. x+w-1 by y .. y+h-1, the disc of the corner, the box of the
\* triangle's vertices.
WhollyOutside ==
    LET a  == last.args
        sw == eng.screen_width
        sh == eng.screen_height
    IN  CASE last.op = "draw_rounded_rect" ->
                 \/ a[3] <= 0 \/ a[4] <= 0
                 \/ a[1] >= sw \/ a[1] + a[3] <= 0
                 \/ a[2] >= sh \/ a[2] + a[4] <= 0
          [] last.op = "_draw_circle_corner" ->
                 \/ a[3] < 0
                 \/ a[1] - a[3] >= sw \/ a[1] + a[3] < 0
                 \/ a[2] - a[3] >= sh \/ a[2] + a[3] < 0
          [] last.op = "fill_triangle" ->
                 \/ Max2(a[1], Max2(a[3], a[5])) < 0
                 \/ Min3(a[1], a[3], a[5]) >= sw
                 \/ Max2(a[2], Max2(a[4], a[6])) < 0
                 \/ Min3(a[2], a[4], a[6]) >= sh
          [] OTHER -> FALSE

\* C24: a call of draw_rounded_rect, _draw_circle_corner or fill_triangle
\* raises nothing and assigns only pixels with 0 <= row < screen_height and
\* 0 <= column < screen_width, and a shape wholly outside the buffer
\* assigns none.
C24_DrawsClipped ==
    last.op \in DrawOps =>
        /\ ~last.raised
        /\ \A p \in buffer.px :
              /\ 0 <= p[1] /\ p[1] < eng.screen_height
              /\ 0 <= p[2] /\ p[2] < eng.screen_width
        /\ WhollyOutside => buffer.px = {}

\* C25: draw_rounded_rect with a radius r >= min(w, h) / 2 assigns exactly
\* the pixels that draw_rounded_rect with the radius min(w, h) / 2 assigns.
C25_RadiusBeyondCapSamePixels ==
    (last.op = "draw_rounded_rect"
        /\ 2 * last.args[5] >= Min2(last.args[3], last.args[4])) =>
        buffer.px =
            draw_rounded_rect(eng.screen_width, eng.screen_height,
                last.args[1], last.args[2], last.args[3], last.args[4],
                TruncQuot(Min2(last.args[3], last.args[4]), 2)).px

\* A 6 x 4 rectangle drawn with radius 4, twice the cap, across the right
\* edge of the buffer: its corners are cut and part of it is clipped.
C25_Witness ==
    /\ last.op = "draw_rounded_rect"
    /\ last.args = <<3, 1, 6, 4, 4>>
    /\ <<2, 3>> \notin buffer.px
    /\ <<3, 3>> \in buffer.px
    /\ <<1, 6>> \in buffer.px


----------------------------------------------------------------------------
(* SpecHappy: the pixels of the frame draw_eyes leaves in the buffer        *)

\* The pixels draw_rounded_rect assigns on the screen of engine e.
rect_px(e, x, y, w, h, r) ==
    draw_rounded_rect(e.screen_width, e.screen_height, x, y, w, h, r).px

\* The pixels fill_triangle assigns on the screen of engine e.
tri_px(e, xa, ya, xb, yb, xc, yc) ==
    fill_triangle(e.screen_width, e.screen_height, xa, ya, xb, yb, xc, yc).px

\* The two eye rectangles, drawn in the foreground colour.
eyes_px(e) ==
    rect_px(e, e.eye_l_x, e.eye_l_y, e.eye_l_width_current,
            e.eye_l_height_current, e.eye_l_border_radius_current)
    \cup
    (IF e.cyclops THEN {}
     ELSE rect_px(e, e.eye_r_x, e.eye_r_y, e.eye_r_width_current,
                  e.eye_r_height_current, e.eye_r_border_radius_current))

\* The tired or angry eyelid triangles of height ht, drawn in the
\* background colour; outer says which side of each eye the eyelid hangs on
\* (tired: the outer side, angry: the inner side).
eyelid_triangles_px(e, ht, outer) ==
    LET lx == e.eye_l_x
        ly == e.eye_l_y
        lw == e.eye_l_width_current
        rx == e.eye_r_x
        ry == e.eye_r_y
        rw == e.eye_r_width_current
        hw == PyFloorDiv(lw, 2)
    IN  IF ~e.cyclops
        THEN tri_px(e, lx, ly - 1, lx + lw, ly - 1,
                    IF outer THEN lx ELSE lx + lw, ly + ht - 1)
             \cup
             tri_px(e, rx, ry - 1, rx + rw, ry - 1,
                    IF outer THEN rx + rw ELSE rx, ry + ht - 1)
        ELSE tri_px(e, lx, ly - 1, lx + hw, ly - 1,
                    IF outer THEN lx ELSE lx + hw, ly + ht - 1)
             \cup
             tri_px(e, lx + hw, ly - 1, lx + lw, ly - 1,
                    IF outer THEN lx + lw ELSE lx + hw, ly + ht - 1)

\* The happy bottom eyelids, drawn in the background colour.
happy_eyelids_px(e) ==
    rect_px(e, e.eye_l_x - 1,
            (e.eye_l_y + e.eye_l_height_current) - e.eyelids_happy_bottom_offset + 1,
            e.eye_l_width_current + 2, e.eye_l_height_default,
            e.eye_l_border_radius_current)
    \cup
    (IF e.cyclops THEN {}
     ELSE rect_px(e, e.eye_r_x - 1,
                  (e.eye_r_y + e.eye_r_height_current) - e.eyelids_happy_bottom_offset + 1,
                  e.eye_r_width_current + 2, e.eye_r_height_default,
                  e.eye_r_border_radius_current))

\* The pixels that hold the foreground colour when draw_eyes returns, for
\* the engine e it leaves (background and foreground colours differ).
foreground(e) ==
    eyes_px(e) \ (eyelid_triangles_px(e, e.eyelids_tired_height, TRUE)
                  \cup eyelid_triangles_px(e, e.eyelids_angry_height, FALSE)
                  \cup happy_eyelids_px(e))

HappyMoods == {HAPPY, DEFAULT}
HappyWidthArgs == {<<Some(20), Some(20)>>, <<Some(7), None>>}
HappyHeightArgs == {<<Some(20), Some(20)>>, <<None, Some(9)>>}
HappyRadiusArgs == {<<Some(0), Some(0)>>, <<Some(3), Some(30)>>}

InitHappy == InitWith(NewEngine(320, 240), "setup")

NextHappy ==
    \/ Setup /\ MoodCall(HappyMoods)
    \/ Setup /\ EyesWidthCall(HappyWidthArgs)
    \/ Setup /\ EyesHeightCall(HappyHeightArgs)
    \/ Setup /\ EyesRadiusCall(HappyRadiusArgs)
    \/ Setup /\ CyclopsCall(BOOLEAN)
    \/ TickQuiet

SpecHappy == InitHappy /\ [][NextHappy]_vars

\* The rectangle of width w and height h at (x, y), as <<row, column>> pairs.
Box(x, y, w, h) == { p \in (y .. (y + h - 1)) \X (x .. (x + w - 1)) : TRUE }

\* The bounding regions of the eyes of engine e, from the position and the
\* current width and height of each; the region less the happy eyelid offset
\* at the bottom is contained in it.
EyeBoxes(e) ==
    Box(e.eye_l_x, e.eye_l_y, e.eye_l_width_current, e.eye_l_height_current)
    \cup
    (IF e.cyclops THEN {}
     ELSE Box(e.eye_r_x, e.eye_r_y, e.eye_r_width_current, e.eye_r_height_current))

\* C26: with mood HAPPY, after a tick, every pixel of the buffer that is not
\* background lies inside the bounding region of one of the two eyes, computed
\* from the x, y, width_current and height_current of that eye.
C26_HappyForegroundInsideEyes ==
    (last.op = "tick" /\ eng.mood = HAPPY) => foreground(eng) \subseteq EyeBoxes(eng)


----------------------------------------------------------------------------
(* SpecMood: mood assignments, curious mode and ticks                      *)

Moods == {DEFAULT, TIRED, ANGRY, HAPPY, FROZEN, SCARY, CURIOUS, SAD}

\* The moods no flag is derived from.
PlainMoods == {FROZEN, SCARY, CURIOUS, SAD}

InitMood == InitWith(NewEngine(320, 240), "free")

NextMood ==
    \/ Counted /\ MoodCall(Moods)
    \/ Counted /\ CuriousCall(BOOLEAN)
    \/ TickQuiet

SpecMood == InitMood /\ [][NextMood]_vars

\* The tick of engine e, had its mood been DEFAULT; the mood itself is kept.
TickAsDefault(e, t) ==
    [draw_eyes(set_mood(e, DEFAULT), t, NoDraws) EXCEPT !.mood = e.mood]

\* C27: tired, angry and happy each say whether the mood is TIRED, ANGRY or
\* HAPPY, so at most one holds; assigning FROZEN, SCARY, CURIOUS or SAD leaves
\* all three false and the curious flag as it was, and a tick under one of
\* those moods changes the engine and the frame as a tick under DEFAULT does.
C27_MoodFlags ==
    /\ eng.tired = (eng.mood = TIRED)
    /\ eng.angry = (eng.mood = ANGRY)
    /\ eng.happy = (eng.mood = HAPPY)
    /\ Cardinality({f \in {"tired", "angry", "happy"} : eng[f]}) <= 1
    /\ (last.op = "mood" /\ last.args[1] \in PlainMoods) =>
          /\ ~eng.tired /\ ~eng.angry /\ ~eng.happy
          /\ eng.curious = pre.curious
    /\ (last.op = "tick" /\ pre.mood \in PlainMoods) =>
          /\ eng = TickAsDefault(pre, now)
          /\ buffer = Frame(TickAsDefault(pre, now))

\* SAD assigned over HAPPY with curious mode on, then a tick: the happy
\* eyelid is still on its way down.
C27_Witness ==
    /\ last.op = "tick"
    /\ eng.mood = SAD /\ pre.mood = SAD
    /\ eng.curious
    /\ eng.eyelids_happy_bottom_offset > 0


----------------------------------------------------------------------------
(* SpecTwin: a RoboEyes and a FastRoboEyes built alike and driven alike     *)

TwinHorizon == 100      \* ms of clock covered by the specification of the two engines
TwinDeltas == {16, 40}

\* The mutator calls made on both engines.
TwinOps ==
    { [name |-> "mood", args |-> <<HAPPY>>],
      [name |-> "eyes_height", args |-> <<Some(20), Some(60)>>],
      [name |-> "close", args |-> <<None, None>>],
      [name |-> "set_auto_blinker", args |-> <<ON, Some(0), Some(1)>>] }

\* The methods of the two classes are the same code (src/roboeyes.py
\* 270-501 and src/new/roboeyes_fast.py 246-461).
TwinApply(e, o) ==
    CASE o.name = "mood" -> set_mood(e, o.args[1])
      [] o.name = "eyes_height" -> eyes_height(e, o.args[1], o.args[2])
      [] o.name = "close" -> close(e, o.args[1], o.args[2])
      [] o.name = "set_auto_blinker" ->
            set_auto_blinker(e, o.args[1], o.args[2], o.args[3])

\* The same mutator call on both engines.
TwinCall ==
    /\ hist.calls < MaxCalls
    /\ \E o \in TwinOps :
          /\ eng' = TwinApply(eng, o)
          /\ hist' = [hist EXCEPT !.calls = @ + 1, !.robo = TwinApply(@, o)]
          /\ last' = Op(o.name, o.args, FALSE)
    /\ pre' = eng
    /\ UNCHANGED <<now, phase, buffer, seq>>

\* update() on both engines at the same clock readings and with the same
\* random draws.
TwinUpdate ==
    \E d \in TwinDeltas, lag \in DrawLags :
        LET t == now + d
        IN  /\ t + lag <= ClockStart + TwinHorizon
            /\ \E rnd \in Draws(eng, t + lag) \cup Draws(hist.robo, t + lag) :
                 LET u == update(eng, NewSequence, t, lag, rnd)
                     v == update(hist.robo, NewSequence, t, lag, rnd)
                 IN  /\ eng' = u.eng
                     /\ hist' = [hist EXCEPT !.robo = v.eng, !.redrew = u.redrew]
                     /\ buffer' = IF u.redrew THEN Frame(u.eng) ELSE buffer
                     /\ now' = IF u.redrew THEN t + lag ELSE t
            /\ pre' = eng
            /\ last' = Op("update", <<d, lag>>, FALSE)
            /\ UNCHANGED <<phase, seq>>

InitTwin == InitWith(NewEngine(320, 240), "free")

NextTwin == TwinCall \/ TwinUpdate

SpecTwin == InitTwin /\ [][NextTwin]_vars

\* C28: built with the same configuration and driven by the same mutator
\* calls and update() calls at the same clock readings and with the same
\* random draws, RoboEyes and FastRoboEyes hold equal geometry, eyelid,
\* flicker and timer values after every update() call.
C28_EnginesAgree == last.op = "update" => hist.robo = eng


----------------------------------------------------------------------------
(* SpecSmooth: what a tick does to each smoothed value                      *)

SmoothWidthArgs == {<<Some(60), Some(20)>>}
SmoothHeightArgs == {<<Some(60), Some(20)>>}
SmoothRadiusArgs == {<<Some(1), Some(30)>>}
SmoothSpacingArgs == {30}
SmoothCloseArgs == {<<None, None>>}
SmoothFlickerArgs == {<<ON, Some(2)>>}
MaxFlickerTicks == 3    \* ticks a driver makes with the horizontal flicker on

InitSmooth == InitWith(NewEngine(320, 240), "free")

NextSmooth ==
    \/ Counted /\ EyesWidthCall(SmoothWidthArgs)
    \/ Counted /\ EyesHeightCall(SmoothHeightArgs)
    \/ Counted /\ EyesRadiusCall(SmoothRadiusArgs)
    \/ Counted /\ EyesSpacingCall(SmoothSpacingArgs)
    \/ Counted /\ CloseCall(SmoothCloseArgs)
    \/ Counted /\ CuriousCall({TRUE})
    \/ Counted /\ PositionCall({W})
    \/ Counted /\ HorizFlickerCall(SmoothFlickerArgs)
    \/ hist.h_count < MaxFlickerTicks /\ TickQuiet

SpecSmooth == InitSmooth /\ [][NextSmooth]_vars

\* b lies between a and c, ends included.
Between(a, b, c) == (a <= b /\ b <= c) \/ (c <= b /\ b <= a)

\* The value of field cur moved towards the value field nxt had before the
\* tick or has after it, without passing it.
Toward(cur, nxt) ==
    \/ Between(pre[cur], eng[cur], pre[nxt])
    \/ Between(pre[cur], eng[cur], eng[nxt])

\* The sizes, radii and spacing, with the fields that hold their targets.
SmoothedSizes ==
    { <<"eye_l_width_current", "eye_l_width_next">>,
      <<"eye_r_width_current", "eye_r_width_next">>,
      <<"eye_l_border_radius_current", "eye_l_border_radius_next">>,
      <<"eye_r_border_radius_current", "eye_r_border_radius_next">>,
      <<"space_between_current", "space_between_next">> }

SmoothedHeights ==
    { <<"eye_l_height_current", "eye_l_height_next">>,
      <<"eye_r_height_current", "eye_r_height_next">> }

SmoothedX == { <<"eye_l_x", "eye_l_x_next">>, <<"eye_r_x", "eye_r_x_next">> }

SmoothedY == { <<"eye_l_y", "eye_l_y_next">>, <<"eye_r_y", "eye_r_y_next">> }

Recentred(y, default, height, offset) ==
    (y + PyFloorDiv(default - height, 2)) - PyFloorDiv(offset, 2)

----------------------------------------------------------------------------
(* SpecAuto: the auto-blinker under ticks at varying intervals              *)

AutoHorizon == 3000     \* ms of clock covered by the specification of the auto-blinker
AutoDeltas == {400, 1000}
AutoBlinkerArgs ==
    { <<ON, Some(1), Some(1)>>, <<ON, Some(0), Some(2)>>, <<OFF, None, None>> }

\* set_auto_blinker(active, interval, variation)
AutoSet ==
    /\ hist.calls < MaxCalls
    /\ \E a \in AutoBlinkerArgs :
          Call(set_auto_blinker(eng, a[1], a[2], a[3]), "set_auto_blinker", a, FALSE)
    /\ hist' = [hist EXCEPT !.calls = @ + 1, !.auto_at = None, !.auto_gap = None,
                            !.auto_on = IF eng'.autoblinker THEN Some(now) ELSE None]
    /\ UNCHANGED phase

\* A tick d ms after the last clock reading; random.randint(0, variation)
\* returns k.
AutoTick ==
    \E d \in AutoDeltas :
        LET t == now + d
            g == smooth_geometry(eng)
            fires == auto_blink_due(g, t)
        IN  /\ t <= ClockStart + AutoHorizon
            /\ \E k \in (IF fires THEN 0 .. g.blink_interval_variation ELSE {0}) :
                 LET rnd == [NoDraws EXCEPT !.blink_k = k]
                 IN  /\ eng' = draw_eyes(eng, t, rnd)
                     /\ hist' = [HistTick(hist, eng, t, rnd, phase) EXCEPT
                            !.auto_fired = fires,
                            !.auto_gap = IF fires /\ ~IsNone(hist.auto_at)
                                         THEN Some(t - Val(hist.auto_at)) ELSE None,
                            !.auto_at = IF fires THEN Some(t) ELSE @]
            /\ now' = t
            /\ buffer' = Frame(eng')
            /\ pre' = eng
            /\ last' = Op("tick", <<>>, FALSE)
            /\ UNCHANGED <<phase, seq>>

InitAuto == InitWith(NewEngine(320, 240), "free")

NextAuto == AutoSet \/ AutoTick

SpecAuto == InitAuto /\ [][NextAuto]_vars

\* C30: a tick at time now on which the auto-blinker fires sets the next fire
\* time to now + interval*1000 + k*1000 for a whole k with 0 <= k <= variation;
\* it fires on no tick with now earlier than the stored fire time; and, with
\* no set_auto_blinker call in between, two consecutive fires are at least
\* interval*1000 ms apart.
C30_AutoBlinkSchedule ==
    last.op = "tick" =>
        /\ hist.auto_fired =>
              /\ \E k \in 0 .. pre.blink_interval_variation :
                    eng.blink_timer =
                        now + (pre.blink_interval * 1000) + (k * 1000)
              /\ eng.eye_l_height_next = 1 /\ eng.eye_r_height_next = 1
              /\ eng.eye_l_open /\ eng.eye_r_open
        /\ now < pre.blink_timer => ~hist.auto_fired
        /\ ~hist.auto_fired => eng.blink_timer = pre.blink_timer
        /\ ~IsNone(hist.auto_gap) =>
              Val(hist.auto_gap) >= pre.blink_interval * 1000

\* A second fire 1400 ms or more after the first under interval 1, the tick
\* that fires coming later than the stored fire time.
C30_Witness ==
    /\ last.op = "tick"
    /\ hist.auto_fired
    /\ eng.blink_interval = 1
    /\ ~IsNone(hist.auto_gap) /\ Val(hist.auto_gap) >= 1400
    /\ now > pre.blink_timer
    /\ eng.blink_timer = now + 2000


----------------------------------------------------------------------------
(* SpecIdle: the idle macro under ticks, with eyes of several widths        *)

IdleHorizon == 1400     \* ms of clock covered by the specification of the idle macro
IdleDeltas == {400, 1000}
IdleArgs == { <<ON, Some(1), Some(1)>>, <<ON, Some(0), Some(0)>>, <<OFF, None, None>> }
IdleWidthArgs == { <<Some(60), Some(60)>>, <<Some(200), Some(200)>> }

\* A tick d ms after the last clock reading, with the auto-blinker off. When
\* the idle macro is due and a constraint is negative, random.randint raises
\* ValueError and the tick ends there.
IdleTick ==
    \E d \in IdleDeltas :
        LET t == now + d
            m == before_idle(eng, t, 0)
            fires == idle_due(m, t)
        IN  /\ t <= ClockStart + IdleHorizon
            /\ ~eng.autoblinker
            /\ IF idle_pick_raises(eng, t)
               THEN /\ \E x \in Picks(get_screen_constraint_x(m)) \cup {0} :
                          eng' = draw_eyes_raising(eng, t, 0, x)
                    /\ hist' = [hist EXCEPT !.idle_fired = TRUE]
                    /\ last' = Op("tick", <<>>, TRUE)
                    /\ UNCHANGED buffer
               ELSE /\ \E x \in (IF fires THEN Picks(get_screen_constraint_x(m)) ELSE {0}),
                          y \in (IF fires THEN Picks(get_screen_constraint_y(m)) ELSE {0}),
                          k \in (IF fires THEN 0 .. m.idle_interval_variation ELSE {0}) :
                         LET rnd == [blink_k |-> 0, idle_x |-> x, idle_y |-> y, idle_k |-> k]
                         IN  /\ eng' = draw_eyes(eng, t, rnd)
                             /\ hist' = [HistTick(hist, eng, t, rnd, phase) EXCEPT
                                            !.idle_fired = fires]
                    /\ last' = Op("tick", <<>>, FALSE)
                    /\ buffer' = Frame(eng')
            /\ now' = t
            /\ pre' = eng
            /\ UNCHANGED <<phase, seq>>

InitIdle == InitWith(NewEngine(320, 240), "free")

NextIdle ==
    \/ Counted /\ IdleModeCall(IdleArgs)
    \/ Counted /\ EyesWidthCall(IdleWidthArgs)
    \/ IdleTick

SpecIdle == InitIdle /\ [][NextIdle]_vars

----------------------------------------------------------------------------
(* SpecFlicker: the two flicker axes switched on and off between ticks      *)

FlickerHArgs == { <<ON, Some(2)>>, <<OFF, None>> }
FlickerVArgs == { <<ON, Some(3)>>, <<OFF, Some(0)>> }

VertFlickerCall(args) ==
    \E a \in args :
        Call(vert_flicker(eng, a[1], a[2]), "vert_flicker", a, FALSE)

InitFlicker == InitWith(NewEngine(320, 240), "free")

NextFlicker ==
    \/ Counted /\ HorizFlickerCall(FlickerHArgs)
    \/ Counted /\ VertFlickerCall(FlickerVArgs)
    \/ Counted /\ PositionCall({NE})
    \/ hist.h_count < MaxFlickerTicks /\ TickQuiet

SpecFlicker == InitFlicker /\ [][NextFlicker]_vars

\* The offset a tick applies on an axis that is enabled, with amplitude amp
\* and phase flag alt; none on an axis that is not.
Applied(enabled, amp, alt) == IF ~enabled THEN 0 ELSE IF alt THEN amp ELSE -amp

\* C32: on every tick an enabled flicker axis adds its amplitude to both
\* eyes on that axis when its phase flag is true and subtracts it when false,
\* then toggles the flag; a disabled axis applies no offset and keeps its
\* flag; neither axis touches the other's coordinates, flag or amplitude.
C32_FlickerPerAxis ==
    last.op = "tick" =>
        LET m  == before_flicker(pre, now, NoDraws)
            dx == Applied(pre.h_flicker, pre.h_flicker_amplitude, pre.h_flicker_alternate)
            dy == Applied(pre.v_flicker, pre.v_flicker_amplitude, pre.v_flicker_alternate)
        IN  /\ eng.eye_l_x = m.eye_l_x + dx /\ eng.eye_r_x = m.eye_r_x + dx
            /\ eng.eye_l_y = m.eye_l_y + dy /\ eng.eye_r_y = m.eye_r_y + dy
            /\ eng.h_flicker_alternate = (IF pre.h_flicker THEN ~pre.h_flicker_alternate
                                                          ELSE pre.h_flicker_alternate)
            /\ eng.v_flicker_alternate = (IF pre.v_flicker THEN ~pre.v_flicker_alternate
                                                          ELSE pre.v_flicker_alternate)
            /\ eng.h_flicker = pre.h_flicker /\ eng.v_flicker = pre.v_flicker
            /\ eng.h_flicker_amplitude = pre.h_flicker_amplitude
            /\ eng.v_flicker_amplitude = pre.v_flicker_amplitude

\* Both axes enabled with their phase flags apart: the tick moves x by -2
\* and y by +3.
C32_Witness ==
    /\ last.op = "tick"
    /\ pre.h_flicker /\ pre.v_flicker
    /\ ~pre.h_flicker_alternate /\ pre.v_flicker_alternate
    /\ eng.eye_l_x = before_flicker(pre, now, NoDraws).eye_l_x - 2
    /\ eng.eye_r_y = before_flicker(pre, now, NoDraws).eye_r_y + 3
    /\ eng.h_flicker_alternate /\ ~eng.v_flicker_alternate


----------------------------------------------------------------------------
(* SpecCurious: curious mode while the eyes look left and right             *)

CuriousWidthArgs == { <<Some(60), Some(20)>> }

InitCurious == InitWith(NewEngine(320, 240), "free")

NextCurious ==
    \/ Counted /\ CuriousCall(BOOLEAN)
    \/ Counted /\ CyclopsCall(BOOLEAN)
    \/ Counted /\ PositionCall({W, E})
    \/ Counted /\ EyesWidthCall(CuriousWidthArgs)
    \/ TickQuiet

SpecCurious == InitCurious /\ [][NextCurious]_vars

\* The offset of an eye that peers exactly when peering holds.
OffsetIs(offset, peering) == offset = (IF peering THEN CuriousOffset ELSE 0)

\* The left eye's rule, on the engine as the tick finds it.
LeftPeers(e) ==
    \/ e.eye_l_x_next <= CuriousMargin
    \/ e.cyclops /\ e.eye_l_x_next >= get_screen_constraint_x(e) - CuriousMargin

\* C33 as stated: on a tick with curious on, the right offset is 8 exactly
\* when the right eye's target x of this tick (left target + left width +
\* spacing, the value the tick stores in eye_r_x_next) is >= screen_width -
\* right width_current - 10; the left offset follows the left rule; with
\* curious off both offsets are 0.
C33_Original ==
    last.op = "tick" =>
        IF ~pre.curious
        THEN eng.eye_l_height_offset = 0 /\ eng.eye_r_height_offset = 0
        ELSE /\ OffsetIs(eng.eye_l_height_offset, LeftPeers(pre))
             /\ \/ OffsetIs(eng.eye_r_height_offset,
                            eng.eye_r_x_next >= pre.screen_width
                                - pre.eye_r_width_current - CuriousMargin)
                \/ OffsetIs(eng.eye_r_height_offset,
                            eng.eye_r_x_next >= eng.screen_width
                                - eng.eye_r_width_current - CuriousMargin)

\* C33 as amended: on a tick with curious on, the right offset is 8 exactly
\* when eye_r_x_next as the tick finds it (the target the previous tick
\* stored, or the constructor's) is >= screen_width - right width_current -
\* 10, with the width as the tick finds it; the left offset is 8 exactly when
\* the left target is <= 10, or cyclops is on and the left target is >=
\* constraint_x - 10; with curious off both offsets are 0.
C33_CuriousOffsets ==
    last.op = "tick" =>
        IF ~pre.curious
        THEN eng.eye_l_height_offset = 0 /\ eng.eye_r_height_offset = 0
        ELSE /\ OffsetIs(eng.eye_l_height_offset, LeftPeers(pre))
             /\ OffsetIs(eng.eye_r_height_offset,
                         pre.eye_r_x_next >= pre.screen_width
                             - pre.eye_r_width_current - CuriousMargin)

\* The first tick after the eyes were sent east: the right eye's new target
\* is within the margin of the right edge, the stored one was not, and the
\* right offset is 0.
C33_Witness ==
    /\ last.op = "tick"
    /\ pre.curious
    /\ pre.eye_r_x_next < pre.screen_width - pre.eye_r_width_current - CuriousMargin
    /\ eng.eye_r_x_next >= eng.screen_width - eng.eye_r_width_current - CuriousMargin
    /\ eng.eye_r_height_offset = 0


----------------------------------------------------------------------------
(* SpecLeave: a mood worn for some ticks, then left for DEFAULT             *)

DecayTicks == 6         \* ticks after which an eyelid of less than 64 has decayed to 0
LeaveMoods == {TIRED, ANGRY, HAPPY}
LeaveHeightArgs == { <<Some(60), Some(60)>> }

\* The mood is set to DEFAULT while it is TIRED, ANGRY or HAPPY.
LeaveMood ==
    /\ phase = "setup"
    /\ eng.mood \in LeaveMoods
    /\ Call(set_mood(eng, DEFAULT), "mood", <<DEFAULT>>, FALSE)
    /\ phase' = "final"
    /\ hist' = [hist EXCEPT !.after = 0]

InitLeave == InitWith(NewEngine(320, 240), "setup")

NextLeave ==
    \/ Setup /\ MoodCall(LeaveMoods)
    \/ Setup /\ EyesHeightCall(LeaveHeightArgs)
    \/ LeaveMood
    \/ TickQuiet

SpecLeave == InitLeave /\ [][NextLeave]_vars

\* The three eyelid values of engine e.
Eyelids(e) ==
    <<e.eyelids_tired_height, e.eyelids_angry_height, e.eyelids_happy_bottom_offset>>

\* C34: after the mood has gone from TIRED, ANGRY or HAPPY to DEFAULT, every
\* tick halves each eyelid value, rounding down, so the eyelid of the mood
\* left does not drop to 0 at once unless it was 1 or less; after DecayTicks
\* ticks or more every eyelid value is 0.
C34_EyelidsDecayOnLeaving ==
    (phase = "final" /\ last.op = "tick") =>
        /\ \A i \in 1..3 : Eyelids(eng)[i] = Eyelids(pre)[i] \div 2
        /\ \A i \in 1..3 : Eyelids(pre)[i] >= 2 =>
              (0 < Eyelids(eng)[i] /\ Eyelids(eng)[i] < Eyelids(pre)[i])
        /\ hist.after >= DecayTicks => Eyelids(eng) = <<0, 0, 0>>

\* The last step of a decay that began at 16 or more: on the fifth tick
\* after HAPPY was left the happy eyelid goes from 1 to 0.
C34_Witness ==
    /\ phase = "final" /\ last.op = "tick"
    /\ hist.after = 5
    /\ pre.eyelids_happy_bottom_offset = 1
    /\ eng.eyelids_happy_bottom_offset = 0


----------------------------------------------------------------------------
(* Confuse and laugh side by side (SpecGesture)                             *)

\* The state of the confuse gesture: active flag, phase toggle, start time,
\* flicker enable and amplitude.
ConfuseState(e) ==
    <<e.confused, e.confused_toggle, e.confused_animation_timer,
      e.h_flicker, e.h_flicker_amplitude>>

\* The state of the laugh gesture.
LaughState(e) ==
    <<e.laugh, e.laugh_toggle, e.laugh_animation_timer,
      e.v_flicker, e.v_flicker_amplitude>>

\* C35: a confuse() call leaves the laugh state as it was and a laugh() call
\* the confuse state; a tick takes each gesture's state where it would have
\* taken it had the other gesture not been active, whether the other starts,
\* runs or finishes on that tick.
C35_GesturesIndependent ==
    /\ last.op = "confuse" => LaughState(eng) = LaughState(pre)
    /\ last.op = "laugh" => ConfuseState(eng) = ConfuseState(pre)
    /\ last.op = "tick" =>
          /\ ConfuseState(eng) =
                ConfuseState(draw_eyes([pre EXCEPT !.laugh = FALSE], now, NoDraws))
          /\ LaughState(eng) =
                LaughState(draw_eyes([pre EXCEPT !.confused = FALSE], now, NoDraws))

\* The tick on which the laugh finishes while the confuse gesture, started
\* later, is still flickering.
C35_Witness ==
    /\ last.op = "tick"
    /\ pre.laugh /\ ~eng.laugh /\ ~eng.v_flicker
    /\ pre.confused /\ eng.confused /\ ~eng.confused_toggle
    /\ eng.h_flicker /\ eng.h_flicker_amplitude = ConfusedAmplitude
    /\ eng.confused_animation_timer > pre.laugh_animation_timer


----------------------------------------------------------------------------
(* SpecReopen: a blink, with curious mode on or off, then ticks only        *)

ReopenHeightArgs == { <<Some(60), None>> }

InitReopen == InitWith(NewEngine(320, 240), "setup")

NextReopen ==
    \/ Setup /\ CuriousCall({TRUE})
    \/ Setup /\ PositionCall({W})
    \/ Setup /\ EyesHeightCall(ReopenHeightArgs)
    \/ FinalBlink
    \/ TickQuiet /\ phase \in {"setup", "blinked"}

SpecReopen == InitReopen /\ [][NextReopen]_vars

\* What a tick after the blink may do to one eye: while the height it has
\* reached is above 1 + offset the target stays 1; the target changes only
\* to the default, on a tick that has brought the height to 1 + offset or
\* less, and the frame of that tick shows the eye that low.
ClosesBeforeReopening(next, current, offset, default, drawn) ==
    /\ (pre[next] = 1 /\ eng[current] > 1 + eng[offset]) => eng[next] = 1
    /\ eng[next] # pre[next] =>
          /\ eng[next] = eng[default]
          /\ eng[current] <= 1 + eng[offset]
          /\ drawn[4] = eng[current]

\* C36: blink() sets both height targets to 1; after it, with no other
\* mutator call, height_next of an eye returns to height_default only on a
\* tick on which height_current has reached 1 + height_offset or less, and
\* that tick draws the eye at that height.
C36_BlinkClosesBeforeReopening ==
    /\ last.op = "blink" =>
          /\ eng.eye_l_height_next = 1 /\ eng.eye_r_height_next = 1
          /\ eng.eye_l_open /\ eng.eye_r_open
    /\ (phase = "blinked" /\ last.op = "tick") =>
          /\ ClosesBeforeReopening("eye_l_height_next", "eye_l_height_current",
                 "eye_l_height_offset", "eye_l_height_default", buffer.left)
          /\ ClosesBeforeReopening("eye_r_height_next", "eye_r_height_current",
                 "eye_r_height_offset", "eye_r_height_default", buffer.right)

\* The tick that reopens a curious left eye looking west: the eye is drawn
\* 9 high and its target goes back to the default 36.
C36_Witness ==
    /\ phase = "blinked" /\ last.op = "tick"
    /\ pre.eye_l_height_next = 1 /\ eng.eye_l_height_next = 36
    /\ pre.eye_l_height_current > 9
    /\ eng.eye_l_height_offset = CuriousOffset
    /\ eng.eye_l_height_current = 9
    /\ buffer.left[4] = 9

\* ---------------------------------------------------------------------------
\* Enabling the auto-blinker
\* ---------------------------------------------------------------------------

\* C37: after set_auto_blinker(True, interval, variation) at time t, the first
\* tick on which the auto-blinker fires has now >= t + interval*1000.
C37_NoImmediateBlink ==
    (/\ last.op = "tick"
     /\ hist.auto_fired
     /\ IsNone(hist.auto_gap)
     /\ ~IsNone(hist.auto_on))
        => now >= Val(hist.auto_on) + (pre.blink_interval * 1000)

\* ---------------------------------------------------------------------------
\* Sizes, spacing and position against the screen edges
\* ---------------------------------------------------------------------------

FitWidthArgs == { <<Some(60), Some(60)>>, <<Some(20), Some(20)>> }
FitSpacingArgs == {30}

InitFit == InitWith(NewEngine(320, 240), "free")

\* eyes_width, eyes_spacing and position assignments in any order, with or
\* without ticks between them
NextFit ==
    \/ Counted /\ EyesWidthCall(FitWidthArgs)
    \/ Counted /\ EyesSpacingCall(FitSpacingArgs)
    \/ Counted /\ PositionCall({E, W})
    \/ TickQuiet

SpecFit == InitFit /\ [][NextFit]_vars

\* The sizes last assigned fit the screen side by side.
SizesFit(e) ==
    e.eye_l_width_default + e.space_between_default + e.eye_r_width_default
        <= e.screen_width

\* C38: after eyes_width, eyes_spacing and position assignments whose final
\* sizes fit the screen, once the ticks have converged the left eye has
\* x >= 0 and the right eye's right edge, x + width_current, is at most
\* screen_width.
C38_EyesStayOnScreen ==
    (last.op = "tick" /\ Settled /\ SizesFit(eng)) =>
        /\ eng.eye_l_x >= 0
        /\ eng.eye_r_x + eng.eye_r_width_current <= eng.screen_width

\* ---------------------------------------------------------------------------
\* SpecLoop: a Sequence whose callbacks call reset() or start() on it
\* ---------------------------------------------------------------------------

LoopTimings == {0, 100}
LoopCallbacks == {"reset", "start", "close"}

\* A callback of a step of q, called at clock reading ticks with owner e:
\* "reset" calls q.reset(), "start" calls q.start(), "close" calls
\* owner.close().
InvokeOn(callback, q, e, ticks) ==
    CASE callback = "reset" -> [seq |-> Sequence_reset(q), eng |-> e]
      [] callback = "start" -> [seq |-> Sequence_start(q, ticks), eng |-> e]
      [] OTHER              -> [seq |-> q, eng |-> Invoke(callback, e)]

\* The loop of Sequence.update from step i on. StepData.update of a step
\* that is not done evaluates ticks - owner_seq._start, a TypeError when
\* _start is None; it marks the step done after its callback has returned.
RECURSIVE VisitSteps(_, _, _, _)
VisitSteps(q, e, ticks, i) ==
    IF i > Len(q.steps)
    THEN [seq |-> q, eng |-> e, raised |-> FALSE]
    ELSE IF q.steps[i].done
    THEN VisitSteps(q, e, ticks, i + 1)
    ELSE IF IsNone(q.start)
    THEN [seq |-> q, eng |-> e, raised |-> TRUE]
    ELSE IF ticks - Val(q.start) < q.steps[i].ms_timing
    THEN VisitSteps(q, e, ticks, i + 1)
    ELSE LET r == InvokeOn(q.steps[i].callback, q, e, ticks)
         IN  VisitSteps([r.seq EXCEPT !.steps[i].done = TRUE], r.eng, ticks, i + 1)

\* Sequence.update with callbacks that may act on the sequence itself
Sequence_update_reentrant(q, ticks, e) ==
    IF IsNone(q.start)
    THEN [seq |-> q, eng |-> e, raised |-> FALSE]
    ELSE VisitSteps(q, e, ticks, 1)

LoopOp(q2, e2, t, name, args, raised) ==
    /\ seq' = q2
    /\ eng' = e2
    /\ pre' = eng
    /\ now' = t
    /\ last' = Op(name, args, raised)
    /\ hist' = [hist EXCEPT !.seq0 = seq]
    /\ UNCHANGED <<phase, buffer>>

\* seq.step(ms_timing, callback)
LoopStep ==
    \E ms \in LoopTimings, cb \in LoopCallbacks :
        /\ Len(seq.steps) < MaxSteps
        /\ LoopOp(Sequence_step(seq, ms, cb), eng, now, "step", <<ms, cb>>, FALSE)

\* seq.start(), d ms after the last clock reading
LoopStart ==
    \E d \in SeqDeltas :
        /\ now + d <= ClockStart + SeqHorizon
        /\ LoopOp(Sequence_start(seq, now + d), eng, now + d, "start", <<>>, FALSE)

\* seq.update(ticks), d ms after the last clock reading
LoopUpdate ==
    \E d \in SeqDeltas :
        /\ now + d <= ClockStart + SeqHorizon
        /\ LET r == Sequence_update_reentrant(seq, now + d, eng)
           IN  LoopOp(r.seq, r.eng, now + d, "update", <<>>, r.raised)

InitLoop == InitWith(NewEngine(320, 240), "free")

NextLoop ==
    \/ LoopStep
    \/ LoopStart
    \/ LoopUpdate

SpecLoop == InitLoop /\ [][NextLoop]_vars

\* C39: a Sequence.update call does not end in an error, and after it a
\* sequence that is not started has no step marked done, also when a step's
\* callback calls reset() or start() on its own sequence.
C39_UpdateSafeUnderOwnCallbacks ==
    last.op = "update" =>
        /\ ~last.raised
        /\ IsNone(seq.start) => \A i \in DOMAIN seq.steps : ~seq.steps[i].done

\* ---------------------------------------------------------------------------
\* The rounded rectangle against its own box
\* ---------------------------------------------------------------------------

\* C40: every pixel assigned by draw_rounded_rect(x, y, w, h, r) with w > 0,
\* h > 0 and r > 0 is in columns x .. x+w-1 and rows y .. y+h-1.
C40_RoundedRectInsideOwnBox ==
    (last.op = "draw_rounded_rect"
        /\ last.args[3] > 0 /\ last.args[4] > 0 /\ last.args[5] > 0) =>
        buffer.px \subseteq
            Box(last.args[1], last.args[2], last.args[3], last.args[4])

====
